---- MODULE Spec2Model ----
(***************************************************************************)
(* Facility-management application (paradisefmx): repair requests with     *)
(* their work log, invitations, and maintenance schedules.                 *)
(*                                                                         *)
(* The relational store is the shared state.  Every HTTP handler is an     *)
(* action; a handler that reads a row, changes it in memory and writes it  *)
(* back in separate database statements (autocommit, no transaction) is    *)
(* split into one action per statement, run by one of the Workers.         *)
(***************************************************************************)
EXTENDS Integers, Sequences, FiniteSets, TLC

\* ------------------------------------------------------------------ bounds
MaxRequests == 2
MaxTracked == 1
MaxLogs == 4
MaxClock == 2
MaxAttachments == 1
MaxAccounts == 3

\* ------------------------------------------------------------------ users
NULL == "NULL"
ANON == "anonymous"

Users == {"sam", "fay", "root", "una", "vic"}

is_staff(u) == u = "sam"
is_superuser(u) == u = "root"
groups(u) ==
    CASE u = "fay" -> {"Facilitair"}
      [] u = "vic" -> {"Beheerders"}
      [] OTHER -> {}
email(u) ==
    CASE u = "sam" -> "sam@fmx.nl"
      [] u = "fay" -> "fay@fmx.nl"
      [] u = "root" -> "root@fmx.nl"
      [] u = "una" -> "una@fmx.nl"
      [] OTHER -> ""
is_authenticated(u) == u \in Users

Workers == {1, 2}

\* ------------------------------------------------------------------ state
VARIABLES
    requests,       \* table RepairRequest: pk -> row
    next_id,        \* next primary key of RepairRequest
    work_logs,      \* table WorkLog, in insertion order
    attachments,    \* table Attachment, in insertion order
    notifications,  \* table Notification, in insertion order
    outbox,         \* send_mail attempts, in order
    clock,          \* timezone.now(), a fresh value at every stamp
    job,            \* per worker: the update_request call it is executing
    resp,           \* the response of the handler that finished last
    invitations,    \* table Invitation: token -> row
    auth_user,      \* table User, the rows as a set
    now,            \* timezone.now() of the invitation views, in days
    accept,         \* per worker: the AcceptInvitationView call it is executing
    schedules,      \* table MaintenanceSchedule: pk -> row
    next_schedule,  \* next primary key of MaintenanceSchedule
    today,          \* date.today(), as a day number
    assets,         \* table Asset: pk -> row
    next_asset,     \* next primary key of Asset
    locations,      \* table Location: pk -> row
    next_location,  \* next primary key of Location
    core_job,       \* per worker: the asset or location call it is executing
    ctx             \* the template context of the overview rendered last

invVars == <<invitations, auth_user, now, accept>>
schedVars == <<schedules, next_schedule, today>>
coreVars == <<assets, next_asset, locations, next_location, core_job, ctx>>

vars == <<requests, next_id, work_logs, attachments, notifications, outbox,
          clock, job, resp, invVars, schedVars, coreVars>>

\* RepairRequest.Status
Status == {"new", "triaged", "in_progress", "waiting", "completed", "closed"}
NoTime == 0
\* a DateField left empty
NoDate == 0
\* a foreign key to a location or an asset left empty
NoRef == 0

IdleJob == [pc |-> "idle"]

NoResp == [op |-> "none", code |-> "", pks |-> {}]

\* no overview rendered yet
NoCtx == [view |-> "none", first |-> 0, last |-> 0, maintenance |-> <<>>,
          upcoming_maintenance |-> <<>>, year |-> 0, months_data |-> <<>>,
          total_estimated |-> 0, total_actual |-> 0, total_difference |-> 0]

Init ==
    /\ requests = <<>>
    /\ next_id = 1
    /\ work_logs = <<>>
    /\ attachments = <<>>
    /\ notifications = <<>>
    /\ outbox = <<>>
    /\ clock = 1
    /\ job = [p \in Workers |-> IdleJob]
    /\ resp = NoResp
    /\ invitations = <<>>
    /\ auth_user = {[username |-> u, email |-> email(u), groups |-> groups(u)] :
                       u \in Users}
    /\ now = 1
    /\ accept = [p \in Workers |-> IdleJob]
    /\ schedules = <<>>
    /\ next_schedule = 1
    /\ today = 1
    /\ assets = <<>>
    /\ next_asset = 1
    /\ locations = <<>>
    /\ next_location = 1
    /\ core_job = [p \in Workers |-> IdleJob]
    /\ ctx = NoCtx

\* ------------------------------------------------------- permission checks
InFacilitair(u) == "Facilitair" \in groups(u)

\* views.py: (user.is_staff or user.is_superuser) or member of 'Facilitair'
IsFacilities(u) == (is_staff(u) \/ is_superuser(u)) \/ InFacilitair(u)

\* (mutant) the e-mail test without its comparison
IsOwnerAnyMail(u, row) == row.requester_user = u \/ row.requester_email # ""

\* add_worklog / add_attachment: is_owner
IsOwner(u, row) == row.requester_user = u \/ row.requester_email = email(u)

\* ActiveRequestManager: the default manager leaves out soft-deleted rows
ActiveRequests == {pk \in DOMAIN requests : ~requests[pk].is_deleted}

\* (mutant) the list filtered by the linked account alone
ListQuerysetAccountOnly(u) ==
    IF ~(is_staff(u) \/ is_superuser(u)) /\ ~InFacilitair(u)
    THEN {pk \in ActiveRequests : requests[pk].requester_user = u}
    ELSE ActiveRequests

\* RequestListView.get_queryset (no GET filters)
ListQueryset(u) ==
    IF ~(is_staff(u) \/ is_superuser(u)) /\ ~InFacilitair(u)
    THEN {pk \in ActiveRequests :
            requests[pk].requester_user = u \/ requests[pk].requester_email = email(u)}
    ELSE ActiveRequests

\* RequestDetailView.get_queryset
DetailQueryset(u) ==
    IF ~(is_staff(u) \/ is_superuser(u)) /\ ~InFacilitair(u)
    THEN {pk \in ActiveRequests :
            requests[pk].requester_user = u \/ requests[pk].requester_email = email(u)}
    ELSE ActiveRequests

\* --------------------------------------------------------- RepairRequest
\* (mutant) save stamps closed_at at every save of a closed request
SaveStampEverySave(inst, stamp) ==
    IF inst.status = "closed" THEN [inst EXCEPT !.closed_at = stamp] ELSE inst

\* RepairRequest.save: stamp closed_at on the first save with status closed
SaveStamp(inst, stamp) ==
    IF inst.status = "closed" /\ inst.closed_at = NoTime
    THEN [inst EXCEPT !.closed_at = stamp]
    ELSE inst

\* RepairRequest.save reads timezone.now()
Stamps(inst) == inst.status = "closed" /\ inst.closed_at = NoTime

\* a new row as RepairRequestForm.save builds it
NewRequest(u, mail) ==
    [status |-> "new", assigned_to |-> NULL, triaged_by |-> NULL,
     closed_at |-> NoTime,
     requester_user |-> IF is_authenticated(u) THEN u ELSE NULL,
     requester_email |-> mail,
     title |-> "leak",
     description |-> "d0", resolution_summary |-> "", is_deleted |-> FALSE,
     location |-> NoRef, asset |-> NoRef,
     due_date |-> NoDate,
     estimated_cost |-> <<>>, actual_cost |-> <<>>, created_at |-> today]

\* (mutant) the cascade of a delete reaching the rows of the older requests
CascadeOlder(rows, pk) == SelectSeq(rows, LAMBDA w : w.repair_request > pk)

\* rows of a child table that survive the cascade of deleting request pk
Cascade(rows, pk) == SelectSeq(rows, LAMBDA w : w.repair_request # pk)

\* ------------------------------------------------------------- responses
\* what the client sees: the handler, its outcome, and the rows it lists
Response(op, code, pks) == [op |-> op, code |-> code, pks |-> pks]

\* ------------------------------------------------------------ the inputs
Mails == {"", "una@fmx.nl"}
Submitters == {ANON, "una"}

\* settings.FILE_UPLOAD limits and AttachmentForm.clean_file
AllowedTypes == {"jpg", "jpeg", "png", "gif", "webp", "pdf"}
Files == {[ext |-> "jpg", size |-> 10485760],
          [ext |-> "jpg", size |-> 10485761],
          [ext |-> "exe", size |-> 2048]}
PhotoInputs == {<<>>} \cup {<<f>> : f \in Files}

\* ------------------------------------------------- CreateRequestView (POST)
\* the photos form_valid stores: every uploaded file of at most 10 MB
StoredPhotos(photos) == SelectSeq(photos, LAMBDA f : f.size <= 10 * 1024 * 1024)

PhotoRows(photos, pk, u) ==
    [i \in 1..Len(StoredPhotos(photos)) |->
        [repair_request |-> pk, file |-> StoredPhotos(photos)[i],
         uploaded_by |-> IF is_authenticated(u) THEN u ELSE NULL]]

\* (mutant) the first entry left at the default entry type
CreatedLogDefaultType(pk, u) ==
    [repair_request |-> pk, entry_type |-> "note",
     author |-> IF is_authenticated(u) THEN u ELSE NULL,
     note |-> [kind |-> "created", a |-> "", b |-> ""]]

\* the initial work log entry of form_valid
CreatedLog(pk, u) ==
    [repair_request |-> pk, entry_type |-> "created",
     author |-> IF is_authenticated(u) THEN u ELSE NULL,
     note |-> [kind |-> "created", a |-> "", b |-> ""]]

FACILITIES_INBOX_EMAIL == "facilities@paradisefmx.local"

CreateRequest(u, mail, photos, mailOk) ==
    /\ next_id <= MaxRequests
    /\ Len(work_logs) < MaxLogs
    /\ Len(attachments) + Len(photos) <= MaxAttachments
    /\ LET pk == next_id IN
        /\ requests' = (pk :> NewRequest(u, mail)) @@ requests
        /\ next_id' = next_id + 1
        /\ attachments' = attachments \o PhotoRows(photos, pk, u)
        /\ work_logs' = Append(work_logs, CreatedLog(pk, u))
        /\ outbox' = Append(outbox, [to |-> FACILITIES_INBOX_EMAIL,
                                     pk |-> pk, ok |-> mailOk])
        /\ resp' = Response("create", "redirect_confirmation", {})
    /\ UNCHANGED <<invVars, coreVars, schedVars, notifications, clock, job>>

\* ------------------------------------------- RequestListView / DetailView
ListRequests(u) ==
    /\ resp' = Response("list", "ok", ListQueryset(u))
    /\ UNCHANGED <<invVars, coreVars, schedVars, requests, next_id, work_logs, attachments, notifications,
                   outbox, clock, job>>

DetailRequest(u, pk) ==
    /\ resp' = IF pk \in DetailQueryset(u)
               THEN Response("detail", "ok", {pk})
               ELSE Response("detail", "404", {})
    /\ UNCHANGED <<invVars, coreVars, schedVars, requests, next_id, work_logs, attachments, notifications,
                   outbox, clock, job>>

\* ------------------------------------------------------------ add_worklog
\* a text is the sequence of its characters
AT == "@"
WordChars == {"s", "a", "m", "f", "y", "g", "h", "o", "t", "u", "n", "k", "_"}

\* User.username, character by character
Spell(u) ==
    CASE u = "sam" -> <<"s", "a", "m">>
      [] u = "fay" -> <<"f", "a", "y">>
      [] u = "root" -> <<"r", "o", "o", "t">>
      [] u = "una" -> <<"u", "n", "a">>
      [] OTHER -> <<"v", "i", "c">>

\* a posted note: its text and the minutes spent (0: left empty)
Notes == {[text |-> <<"@", "s", "a", "m", " ", "@", "g", "h", "o", "s", "t">>,
           minutes |-> 0],
          [text |-> <<"o", "k">>, minutes |-> 30]}

\* utils.py ENABLE_EMAIL_NOTIFICATIONS: off unless the environment sets it
ENABLE_EMAIL_NOTIFICATIONS == FALSE

\* the longest run of \w characters of text from position i on
RECURSIVE WordAt(_, _)
WordAt(text, i) ==
    IF i <= Len(text) /\ text[i] \in WordChars
    THEN <<text[i]>> \o WordAt(text, i + 1)
    ELSE <<>>

\* MENTION_PATTERN.findall(text) for the pattern @(\w+), from position i on
RECURSIVE findall(_, _)
findall(text, i) ==
    IF i > Len(text) THEN <<>>
    ELSE IF text[i] = AT /\ WordAt(text, i + 1) # <<>>
    THEN <<WordAt(text, i + 1)>>
         \o findall(text, i + 1 + Len(WordAt(text, i + 1)))
    ELSE findall(text, i + 1)

\* the rows of the User table in the order a queryset returns them
UserOrder == <<"sam", "fay", "root", "una", "vic">>

\* (mutant) one user per @token, a user named twice listed twice
RECURSIVE UsersOfTokens(_)
UsersOfTokens(usernames) ==
    IF usernames = <<>> THEN <<>>
    ELSE SelectSeq(UserOrder, LAMBDA m : Spell(m) = Head(usernames))
         \o UsersOfTokens(Tail(usernames))

extract_mentionsPerToken(note) == UsersOfTokens(findall(note.text, 1))

\* extract_mentions: list(User.objects.filter(username__in=usernames))
extract_mentions(note) ==
    LET usernames == findall(note.text, 1)
    IN  SelectSeq(UserOrder,
                  LAMBDA m : \E i \in DOMAIN usernames : usernames[i] = Spell(m))

\* send_mention_notifications: one notification per mentioned user
MentionRows(pk, mentioned) ==
    [i \in DOMAIN mentioned |->
        [user |-> mentioned[i], notification_type |-> "mention",
         repair_request |-> pk]]

MentionMails(pk, mentioned, mailOk) ==
    IF ENABLE_EMAIL_NOTIFICATIONS
    THEN LET to == SelectSeq(mentioned, LAMBDA m : email(m) # "") IN
         [i \in 1..Len(to) |-> [to |-> email(to[i]), pk |-> pk, ok |-> mailOk]]
    ELSE <<>>

\* WorkLogForm.is_valid: note is required and stripped, minutes are >= 0
WorkLogFormValid(note) ==
    /\ \E i \in DOMAIN note.text : note.text[i] # " "
    /\ note.minutes >= 0

NoteLog(pk, u, note) ==
    [repair_request |-> pk,
     entry_type |-> IF note.minutes # 0 THEN "time_spent" ELSE "note",
     author |-> u,
     note |-> [kind |-> "note", a |-> "", b |-> ""]]

add_worklog(u, pk, note, mailOk) ==
    /\ pk \in ActiveRequests
    /\ IF ~IsFacilities(u) /\ ~IsOwner(u, requests[pk])
       THEN /\ resp' = Response("add_worklog", "redirect_list", {})
            /\ UNCHANGED <<work_logs, notifications, outbox>>
       ELSE IF ~WorkLogFormValid(note)
       THEN /\ resp' = Response("add_worklog", "redirect_detail", {})
            /\ UNCHANGED <<work_logs, notifications, outbox>>
       ELSE /\ Len(work_logs) < MaxLogs
            /\ work_logs' = Append(work_logs, NoteLog(pk, u, note))
            /\ notifications' =
                 notifications \o MentionRows(pk, extract_mentions(note))
            /\ outbox' = outbox \o MentionMails(pk, extract_mentions(note), mailOk)
            /\ resp' = Response("add_worklog", "redirect_detail", {})
    /\ UNCHANGED <<invVars, coreVars, schedVars, requests, next_id, attachments, clock, job>>

\* --------------------------------------------------------- add_attachment
\* AttachmentForm.clean_file
clean_file(f) == ~(f.size > 10 * 1024 * 1024) /\ f.ext \in AllowedTypes

add_attachment(u, pk, f) ==
    /\ pk \in ActiveRequests
    /\ IF ~IsFacilities(u) /\ ~IsOwner(u, requests[pk])
       THEN /\ resp' = Response("add_attachment", "redirect_list", {})
            /\ UNCHANGED attachments
       ELSE /\ Len(attachments) < MaxAttachments
            /\ attachments' =
                 IF clean_file(f)
                 THEN Append(attachments, [repair_request |-> pk, file |-> f,
                                           uploaded_by |-> u])
                 ELSE attachments
            /\ resp' = Response("add_attachment", "redirect_detail", {})
    /\ UNCHANGED <<invVars, coreVars, schedVars, requests, next_id, work_logs, notifications, outbox, clock, job>>

\* ------------------------------------ update_description / update_resolution
Texts == {"", "d1"}

update_description(u, pk, text) ==
    /\ pk \in ActiveRequests
    /\ IF ~(is_staff(u) \/ is_superuser(u)) /\ ~InFacilitair(u)
       THEN UNCHANGED requests
       ELSE requests' = IF text # ""
                        THEN [requests EXCEPT ![pk].description = text]
                        ELSE requests
    /\ resp' = Response("update_description", "redirect_detail", {})
    /\ UNCHANGED <<invVars, coreVars, schedVars, next_id, work_logs, attachments, notifications, outbox, clock, job>>

update_resolution(u, pk, text) ==
    /\ pk \in ActiveRequests
    /\ IF ~(is_staff(u) \/ is_superuser(u)) /\ ~InFacilitair(u)
       THEN UNCHANGED requests
       ELSE requests' = [requests EXCEPT ![pk].resolution_summary = text]
    /\ resp' = Response("update_resolution", "redirect_detail", {})
    /\ UNCHANGED <<invVars, coreVars, schedVars, next_id, work_logs, attachments, notifications, outbox, clock, job>>

\* ------------------------------------------------------ RequestDeleteView
RequestDelete(u, pk) ==
    /\ pk \in ActiveRequests
    /\ IF is_staff(u) \/ is_superuser(u)
       THEN /\ requests' = [k \in DOMAIN requests \ {pk} |-> requests[k]]
            /\ work_logs' = Cascade(work_logs, pk)
            /\ attachments' = Cascade(attachments, pk)
            /\ notifications' = Cascade(notifications, pk)
            /\ resp' = Response("delete", "redirect_list", {})
       ELSE /\ resp' = Response("delete", "403", {})
            /\ UNCHANGED <<requests, work_logs, attachments, notifications>>
    /\ UNCHANGED <<invVars, coreVars, schedVars, next_id, outbox, clock, job>>

\* --------------------------------------------------------- update_request
\* TriageForm: the posted status and assignee (the other fields play no part)
TriageStatuses == {"new", "triaged", "in_progress", "closed"}
TriageInputs == [status : TriageStatuses, assigned_to : {NULL, "sam", "fay", "root"}]

\* TriageForm.__init__: assignable are the active users that are no superuser
AssigneeChoices == {u \in Users : ~is_superuser(u)}

TriageFormValid(data) ==
    /\ data.status \in Status
    /\ data.assigned_to \in AssigneeChoices \cup {NULL}

\* form.save(commit=False): the posted fields on the loaded instance
TriageFormSave(inst, data) ==
    [inst EXCEPT !.status = data.status, !.assigned_to = data.assigned_to]

\* the note of a status change: 'Status gewijzigd van <old> naar <new>'
StatusNote(old, new) == [kind |-> "status", a |-> old, b |-> new]
\* 'Toegewezen aan <user>' / 'Toewijzing verwijderd'
AssignNote(new) ==
    IF new # NULL THEN [kind |-> "assigned", a |-> "", b |-> new]
    ELSE [kind |-> "unassigned", a |-> "", b |-> NULL]

\* User.get_full_name(), character by character: one account carries a
\* first and last name, the others have none
get_full_name(u) ==
    IF u = "vic"
    THEN <<"V", "i", "c", " ", "S", "t", "a", "t", "u", "s", "m", "a">>
    ELSE <<>>

\* "assigned_to.get_full_name() or assigned_to.username"
DisplayName(u) == IF get_full_name(u) # <<>> THEN get_full_name(u) ELSE Spell(u)

\* Python's "word in text" for two strings
Holds(text, word) ==
    \E i \in 1..(Len(text) - Len(word) + 1) :
        SubSeq(text, i, i + Len(word) - 1) = word

\* the text of a user's full name or username holds the word 'Status'
NameHoldsStatus(u) == Holds(DisplayName(u), <<"S", "t", "a", "t", "u", "s">>)

\* 'Status' in change
HoldsStatus(note) ==
    \/ note.kind = "status"
    \/ note.kind = "assigned" /\ NameHoldsStatus(note.b)

\* (mutant) a status entry for every POST, changed or not
TrackChangesEveryPost(old_status, old_assigned, inst) ==
    <<StatusNote(old_status, inst.status)>>
    \o
    (IF old_assigned # inst.assigned_to
     THEN <<AssignNote(inst.assigned_to)>> ELSE <<>>)

\* the 'changes' list of update_request
TrackChanges(old_status, old_assigned, inst) ==
    (IF old_status # inst.status
     THEN <<StatusNote(old_status, inst.status)>> ELSE <<>>)
    \o
    (IF old_assigned # inst.assigned_to
     THEN <<AssignNote(inst.assigned_to)>> ELSE <<>>)

\* (mutant) every move to 'triaged' stamps the acting user
SetTriagedByEveryTriage(old_status, inst, u) ==
    IF old_status # inst.status /\ inst.status = "triaged"
    THEN [inst EXCEPT !.triaged_by = u]
    ELSE inst

\* 'Set triaged_by on first triage'
SetTriagedBy(old_status, inst, u) ==
    IF old_status # inst.status /\ inst.status = "triaged" /\ inst.triaged_by = NULL
    THEN [inst EXCEPT !.triaged_by = u]
    ELSE inst

ChangeLog(pk, u, note) ==
    [repair_request |-> pk,
     entry_type |-> IF HoldsStatus(note) THEN "status_change" ELSE "assignment",
     author |-> u,
     note |-> note]

\* get_object_or_404, the permission check, the form and the changes list:
\* everything up to repair_request.save()
UpdateLoad(p, u, pk, data) ==
    /\ job[p].pc = "idle"
    /\ pk \in ActiveRequests
    /\ IF ~(is_staff(u) \/ is_superuser(u)) /\ ~InFacilitair(u)
       THEN /\ resp' = Response("update_request", "redirect_detail", {})
            /\ UNCHANGED job
       ELSE IF ~TriageFormValid(data)
       THEN /\ resp' = Response("update_request", "redirect_detail", {})
            /\ UNCHANGED job
       ELSE LET old_status == requests[pk].status
                old_assigned == requests[pk].assigned_to
                inst == TriageFormSave(requests[pk], data)
            IN  /\ job' = [job EXCEPT ![p] =
                     [pc |-> "save", user |-> u, pk |-> pk,
                      inst |-> SetTriagedBy(old_status, inst, u),
                      changes |-> TrackChanges(old_status, old_assigned, inst)]]
                /\ UNCHANGED resp
    /\ UNCHANGED <<invVars, coreVars, schedVars, requests, next_id, work_logs, attachments, notifications,
                   outbox, clock>>

\* repair_request.save(): every column of the row is written from the instance
UpdateSave(p) ==
    /\ job[p].pc = "save"
    /\ Stamps(job[p].inst) => clock <= MaxClock
    /\ requests' = (job[p].pk :> SaveStamp(job[p].inst, clock)) @@ requests
    /\ clock' = IF Stamps(job[p].inst) THEN clock + 1 ELSE clock
    /\ IF job[p].changes = <<>>
       THEN /\ job' = [job EXCEPT ![p] = IdleJob]
            /\ resp' = Response("update_request", "redirect_detail", {})
       ELSE /\ job' = [job EXCEPT ![p].pc = "log"]
            /\ UNCHANGED resp
    /\ UNCHANGED <<invVars, coreVars, schedVars, next_id, work_logs, attachments, notifications, outbox>>

\* one turn of 'for change in changes: WorkLog.objects.create(...)'
UpdateLog(p) ==
    /\ job[p].pc = "log"
    /\ IF job[p].pk \notin DOMAIN requests
       THEN \* the request is gone: the insert violates the foreign key
            /\ job' = [job EXCEPT ![p] = IdleJob]
            /\ resp' = Response("update_request", "500", {})
            /\ UNCHANGED work_logs
       ELSE /\ Len(work_logs) < MaxLogs
            /\ work_logs' = Append(work_logs,
                   ChangeLog(job[p].pk, job[p].user, Head(job[p].changes)))
            /\ IF Tail(job[p].changes) = <<>>
               THEN /\ job' = [job EXCEPT ![p] = IdleJob]
                    /\ resp' = Response("update_request", "redirect_detail", {})
               ELSE /\ job' = [job EXCEPT ![p].changes = Tail(job[p].changes)]
                    /\ UNCHANGED resp
    /\ UNCHANGED <<invVars, coreVars, schedVars, requests, next_id, attachments, notifications, outbox, clock>>

\* -------------------------------------------------------- specifications
Pks == 1..MaxRequests
Quiet == \A p \in Workers : job[p].pc = "idle"
Staff == {"sam", "fay", "una"}
LifeStatuses == {"triaged", "in_progress", "closed"}
LifeInputs == [status : LifeStatuses, assigned_to : {NULL, "sam", "root"}]
ParInputs == [status : {"triaged", "closed"}, assigned_to : {NULL, "sam"}]

\* Request life cycle, the workers running in parallel: a worker's statements
\* interleave with the statements of the other worker.
NextLife ==
    \/ next_id <= MaxTracked /\ CreateRequest(ANON, "", <<>>, TRUE)
    \/ \E p \in Workers, u \in Staff, pk \in Pks, data \in ParInputs :
          UpdateLoad(p, u, pk, data)
    \/ \E p \in Workers : UpdateSave(p)
    \/ \E p \in Workers : UpdateLog(p)

Spec == Init /\ [][NextLife]_vars

\* Request life cycle, one call after the other: a handler starts only when
\* no other is under way.
NextSeq ==
    \/ Quiet /\ next_id <= MaxTracked /\ CreateRequest(ANON, "", <<>>, TRUE)
    \/ \E u \in Staff, pk \in Pks : Quiet /\ RequestDelete(u, pk)
    \/ \E u \in Staff, pk \in Pks, data \in LifeInputs :
          Quiet /\ UpdateLoad(1, u, pk, data)
    \/ UpdateSave(1)
    \/ UpdateLog(1)

SpecSeq == Init /\ [][NextSeq]_vars

\* Who sees which request: submissions by anybody, the list and detail views
\* called by every user, deletion by staff.
NextView ==
    \/ \E u \in Submitters, mail \in Mails, photos \in PhotoInputs, ok \in BOOLEAN :
          CreateRequest(u, mail, photos, ok)
    \/ \E u \in Users : ListRequests(u)
    \/ \E u \in Users, pk \in Pks : DetailRequest(u, pk)
    \/ \E u \in Users, pk \in Pks : RequestDelete(u, pk)

SpecView == Init /\ [][NextView]_vars

\* Who may change a request: the handlers that write, called by a member of
\* 'Facilitair', by the requester and by a stranger, one call after the other.
Callers == {"fay", "una", "vic"}
GuardInputs == {[status |-> "triaged", assigned_to |-> "sam"]}

NextGuard ==
    \/ \E u \in Submitters, mail \in Mails :
          Quiet /\ next_id <= MaxTracked /\ CreateRequest(u, mail, <<>>, TRUE)
    \/ \E u \in Callers, pk \in Pks, note \in Notes :
          Quiet /\ add_worklog(u, pk, note, TRUE)
    \/ \E u \in Callers, pk \in Pks, f \in Files : Quiet /\ add_attachment(u, pk, f)
    \/ \E u \in Callers, pk \in Pks, text \in Texts :
          Quiet /\ update_description(u, pk, text)
    \/ \E u \in Callers, pk \in Pks, text \in Texts :
          Quiet /\ update_resolution(u, pk, text)
    \/ \E u \in Callers, pk \in Pks, data \in GuardInputs :
          Quiet /\ UpdateLoad(1, u, pk, data)
    \/ UpdateSave(1)
    \/ UpdateLog(1)

SpecGuard == Init /\ [][NextGuard]_vars

\* ------------------------------------------------------------------ C1
\* the closed_at a row had before the step (null for a row not yet stored)
ClosedBefore(pk) == IF pk \in DOMAIN requests THEN requests[pk].closed_at ELSE NoTime

\* C1: closed_at stays null until a save with status 'closed', that save sets
\* it, and from then on no save changes or clears it, whatever status changes
\* (re-opening, closing again) follow one another.
C1_ClosedAtOnce ==
    [][\A pk \in DOMAIN requests' :
          /\ ClosedBefore(pk) # NoTime =>
                requests'[pk].closed_at = ClosedBefore(pk)
          /\ (ClosedBefore(pk) = NoTime /\ requests'[pk].closed_at # NoTime) =>
                requests'[pk].status = "closed"
          /\ requests'[pk].status = "closed" => requests'[pk].closed_at # NoTime
      ]_vars

\* the status-change entries of request pk, oldest first
StatusEntries(pk) ==
    SelectSeq(work_logs, LAMBDA w : w.repair_request = pk /\ w.note.kind = "status")
AssignEntries(pk) ==
    SelectSeq(work_logs, LAMBDA w : w.repair_request = pk
                                    /\ w.note.kind \in {"assigned", "unassigned"})

\* a request closed, re-opened and closed again, closed_at still the first stamp
C1_Witness ==
    \E pk \in DOMAIN requests :
        /\ requests[pk].status = "closed"
        /\ requests[pk].closed_at = 1
        /\ clock > 1
        /\ \E i \in 1..Len(StatusEntries(pk)) : StatusEntries(pk)[i].note.a = "closed"

\* ------------------------------------------------------------------ C2
\* The log of a request tells its changes one by one: every status entry
\* starts where the previous one ended, names a real change, and the last one
\* ends at the stored value; the same for the assignment entries.
StatusChain(pk) ==
    LET S == StatusEntries(pk) IN
    /\ \A i \in 1..Len(S) :
          /\ S[i].note.a # S[i].note.b
          /\ S[i].note.a = IF i = 1 THEN "new" ELSE S[i-1].note.b
    /\ requests[pk].status = IF S = <<>> THEN "new" ELSE S[Len(S)].note.b

AssignChain(pk) ==
    LET A == AssignEntries(pk) IN
    /\ \A i \in 1..Len(A) :
          /\ A[i].note.b # (IF i = 1 THEN NULL ELSE A[i-1].note.b)
          /\ A[i].note.kind = "unassigned" <=> A[i].note.b = NULL
    /\ requests[pk].assigned_to = IF A = <<>> THEN NULL ELSE A[Len(A)].note.b

\* C2: a valid update_request POST by a staff user appends exactly one entry
\* describing old->new status when the status differs from the stored one,
\* exactly one entry describing the assignment or its removal when the
\* assignee differs, each with the acting user as author, and none otherwise.
C2_OneEntryPerChange ==
    /\ [](Quiet => \A pk \in DOMAIN requests : StatusChain(pk) /\ AssignChain(pk))
    /\ [][\A p \in Workers :
            (job[p].pc = "log" /\ job'[p] # job[p] /\ job[p].pk \in DOMAIN requests) =>
                /\ Len(work_logs') = Len(work_logs) + 1
                /\ work_logs'[Len(work_logs')].author = job[p].user
                /\ work_logs'[Len(work_logs')].repair_request = job[p].pk
                /\ work_logs'[Len(work_logs')].note = Head(job[p].changes)
         ]_vars

\* one POST changed both the status and the assignee: two entries by its author
C2_Witness ==
    /\ Quiet
    /\ \E pk \in DOMAIN requests :
          /\ Len(StatusEntries(pk)) = 2
          /\ Len(AssignEntries(pk)) = 1
          /\ AssignEntries(pk)[1].author = "fay"
          /\ requests[pk].assigned_to = "sam"

\* ------------------------------------------------------------------ C3
\* C3: the change of status or assignee and the work-log entries describing
\* it are applied as one: at no moment does a reader see the new status or
\* assignee of a request without its entry, nor an entry without its change.
C3_ChangeAndLogAtomic ==
    \A pk \in DOMAIN requests : StatusChain(pk) /\ AssignChain(pk)

\* ------------------------------------------------------------------ C6
\* C6: update_request moving a request to 'triaged' while triaged_by is unset
\* sets triaged_by to the acting user; once set, no later update_request call
\* (one after the other) changes it.
C6_TriagedByOnce ==
    [][\A pk \in DOMAIN requests \cap DOMAIN requests' :
          /\ requests[pk].triaged_by # NULL =>
                requests'[pk].triaged_by = requests[pk].triaged_by
          /\ (requests[pk].triaged_by = NULL /\ requests[pk].status # "triaged"
              /\ requests'[pk].status = "triaged") =>
                \E p \in Workers : /\ job[p].pc = "save" /\ job[p].pk = pk
                                   /\ requests'[pk].triaged_by = job[p].user
          /\ requests'[pk].triaged_by # requests[pk].triaged_by =>
                requests'[pk].status = "triaged"
      ]_vars

\* triaged by sam, left 'triaged', re-entered 'triaged' by fay: still sam
C6_Witness ==
    \E pk \in DOMAIN requests :
        /\ requests[pk].triaged_by = "sam"
        /\ requests[pk].status = "triaged"
        /\ \E i \in 1..Len(StatusEntries(pk)) :
              /\ StatusEntries(pk)[i].author = "fay"
              /\ StatusEntries(pk)[i].note.b = "triaged"

\* ------------------------------------------------------------------ C4
\* the claim's own terms: privileged users, and the requests a user filed
Privileged(u) == is_staff(u) \/ is_superuser(u) \/ "Facilitair" \in groups(u)
FiledBy(u, pk) ==
    requests[pk].requester_user = u \/ requests[pk].requester_email = email(u)
MaySee(u) ==
    {pk \in DOMAIN requests :
        ~requests[pk].is_deleted /\ (Privileged(u) \/ FiledBy(u, pk))}

\* C4: in the list and the detail view a user who is neither staff, superuser
\* nor member of 'Facilitair' sees a request only if it is linked to the
\* account or carries the account's e-mail address; staff, superusers and
\* 'Facilitair' members see every request that is not deleted.
C4_Visibility ==
    [][\A u \in Users :
          /\ ListRequests(u) => resp'.pks = MaySee(u)
          /\ \A pk \in Pks :
                DetailRequest(u, pk) => (resp'.code = "ok" <=> pk \in MaySee(u))
      ]_vars

\* two requests are stored and the list just served shows one of them
C4_Witness ==
    /\ Cardinality(DOMAIN requests) = 2
    /\ resp.op = "list"
    /\ Cardinality(resp.pks) = 1

\* ------------------------------------------------------------------ C5
Refused ==
    /\ resp'.code \in {"redirect_list", "redirect_detail"}
    /\ UNCHANGED <<requests, next_id, work_logs, attachments, notifications,
                   outbox, job, invVars, coreVars, schedVars>>

\* C5: add_worklog or add_attachment called by a user who is neither
\* privileged nor the owner of the request, and update_request,
\* update_description or update_resolution called by any user who is not
\* privileged, are answered with a redirect and leave the store as it was.
C5_RefusedCallsChangeNothing ==
    [][\A u \in Users, pk \in DOMAIN requests :
          ~Privileged(u) =>
             /\ ( /\ ~FiledBy(u, pk)
                  /\ \/ \E note \in Notes, ok \in BOOLEAN : add_worklog(u, pk, note, ok)
                     \/ \E f \in Files : add_attachment(u, pk, f) )
                => Refused
             /\ ( \/ \E text \in Texts : update_description(u, pk, text)
                  \/ \E text \in Texts : update_resolution(u, pk, text)
                  \/ \E p \in Workers, data \in TriageInputs : UpdateLoad(p, u, pk, data) )
                => Refused
      ]_vars

\* a stranger's add_worklog was just answered with the redirect to the list
\* while the request has an owner who could have added the note
C5_Witness ==
    /\ resp = Response("add_worklog", "redirect_list", {})
    /\ \E pk \in DOMAIN requests : requests[pk].requester_user = "una"

\* ------------------------------------------------------------------ C7
\* C7: a valid anonymous submission stores exactly one request, with status
\* 'new' and no linked account, exactly one work-log entry for it (type
\* 'created', no author), makes exactly one mail attempt to the facilities
\* inbox, and answers with the redirect to the confirmation page, whether the
\* mail attempt succeeds or fails.
C7_AnonymousSubmission ==
    [][\A mail \in Mails, photos \in PhotoInputs, ok \in BOOLEAN :
          CreateRequest(ANON, mail, photos, ok) =>
             LET pk == next_id IN
             /\ pk \notin DOMAIN requests
             /\ DOMAIN requests' = DOMAIN requests \cup {pk}
             /\ \A k \in DOMAIN requests : requests'[k] = requests[k]
             /\ requests'[pk].status = "new"
             /\ requests'[pk].requester_user = NULL
             /\ Len(work_logs') = Len(work_logs) + 1
             /\ SubSeq(work_logs', 1, Len(work_logs)) = work_logs
             /\ work_logs'[Len(work_logs')].repair_request = pk
             /\ work_logs'[Len(work_logs')].entry_type = "created"
             /\ work_logs'[Len(work_logs')].author = NULL
             /\ Len(outbox') = Len(outbox) + 1
             /\ SubSeq(outbox', 1, Len(outbox)) = outbox
             /\ outbox'[Len(outbox')].to = FACILITIES_INBOX_EMAIL
             /\ resp' = Response("create", "redirect_confirmation", {})
      ]_vars

\* an anonymous request whose mail attempt failed is stored with its entry
C7_Witness ==
    \E i \in 1..Len(outbox) :
        /\ ~outbox[i].ok
        /\ outbox[i].pk \in DOMAIN requests
        /\ requests[outbox[i].pk].requester_user = NULL
        /\ \E j \in 1..Len(work_logs) :
              /\ work_logs[j].repair_request = outbox[i].pk
              /\ work_logs[j].entry_type = "created"
\* ------------------------------------------------------------ invitations
MaxInvitations == 1
MaxNow == 9

\* Invitation.is_valid / expires_at: timedelta(days=7)
ValidDays == 7

InviteMails == {"kim@fmx.nl"}
InviteGroups == {NULL, "Facilitair"}
Usernames == {"kim", "lee", "sam"}
AcceptInputs ==
    {[method |-> "GET", username |-> "", passwords_match |-> TRUE]}
    \cup [method : {"POST"}, username : Usernames, passwords_match : BOOLEAN]

\* StaffRequiredMixin.test_func
StaffRequired(u) == is_staff(u) \/ is_superuser(u)

\* the passing of time
TickNow ==
    /\ now < MaxNow
    /\ now' = now + 1
    /\ UNCHANGED <<requests, next_id, work_logs, attachments, notifications,
                   outbox, clock, job, resp, invitations, auth_user, accept,
                   schedVars, coreVars>>

\* InvitationCreateView.form_valid; the token of a row is its index
InvitationCreate(u, mail, grp) ==
    /\ Len(invitations) < MaxInvitations
    /\ IF StaffRequired(u)
       THEN /\ invitations' = Append(invitations,
                  [email |-> mail, status |-> "pending", invited_by |-> u,
                   group |-> grp, created_at |-> now, accepted_at |-> NoTime,
                   accepted_user |-> NULL])
            /\ resp' = Response("invitation_create", "redirect_invitation_detail", {})
       ELSE /\ UNCHANGED invitations
            /\ resp' = Response("invitation_create", "403", {})
    /\ UNCHANGED <<requests, next_id, work_logs, attachments, notifications,
                   outbox, clock, job, auth_user, now, accept, schedVars, coreVars>>

\* CancelInvitationView.post
CancelInvitation(u, t) ==
    /\ IF ~StaffRequired(u)
       THEN /\ UNCHANGED invitations
            /\ resp' = Response("cancel_invitation", "403", {})
       ELSE IF t \notin DOMAIN invitations
       THEN /\ UNCHANGED invitations
            /\ resp' = Response("cancel_invitation", "404", {})
       ELSE /\ invitations' =
                  IF invitations[t].status = "pending"
                  THEN [invitations EXCEPT ![t].status = "cancelled"]
                  ELSE invitations
            /\ resp' = Response("cancel_invitation", "redirect_invitations", {})
    /\ UNCHANGED <<requests, next_id, work_logs, attachments, notifications,
                   outbox, clock, job, auth_user, now, accept, schedVars, coreVars>>

\* AcceptInvitationView.dispatch, first statement: get_object_or_404
AcceptLoad(p, t, data) ==
    /\ accept[p].pc = "idle"
    /\ IF t \notin DOMAIN invitations
       THEN /\ UNCHANGED accept
            /\ resp' = Response("accept_invitation", "404", {})
       ELSE /\ accept' = [accept EXCEPT ![p] =
                  [pc |-> "check", token |-> t, inst |-> invitations[t],
                   data |-> data, user |-> NULL]]
            /\ UNCHANGED resp
    /\ UNCHANGED <<requests, next_id, work_logs, attachments, notifications,
                   outbox, clock, job, invitations, auth_user, now, schedVars, coreVars>>

\* (mutant) the window closed at the boundary itself
is_validBeforeBoundary(inst) ==
    inst.status = "pending" /\ ~(now >= inst.created_at + ValidDays)

\* Invitation.is_valid on the loaded instance
is_valid(inst) == inst.status = "pending" /\ ~(now > inst.created_at + ValidDays)

\* Invitation.is_valid: the lazy transition to expired, one column written
Expires(inst) == inst.status = "pending" /\ ~is_valid(inst)

\* AcceptInvitationForm.clean_username and clean
AcceptFormValid(data) ==
    /\ ~\E a \in auth_user : a.username = data.username
    /\ data.passwords_match
\* AcceptInvitationView.dispatch, the is_valid test, then get (the form is
\* rendered) or post (the form is validated)
AcceptCheck(p) ==
    /\ accept[p].pc = "check"
    /\ LET j == accept[p] IN
       IF ~is_valid(j.inst)
       THEN /\ invitations' =
                  IF Expires(j.inst)
                  THEN [invitations EXCEPT ![j.token].status = "expired"]
                  ELSE invitations
            /\ accept' = [accept EXCEPT ![p] = IdleJob]
            /\ resp' = Response("accept_invitation", "redirect_login", {})
       ELSE /\ UNCHANGED invitations
            /\ IF j.data.method = "GET"
               THEN /\ accept' = [accept EXCEPT ![p] = IdleJob]
                    /\ resp' = Response("accept_invitation", "form", {})
               ELSE IF ~AcceptFormValid(j.data)
               THEN /\ accept' = [accept EXCEPT ![p] = IdleJob]
                    /\ resp' = Response("accept_invitation", "form_invalid", {})
               ELSE /\ accept' = [accept EXCEPT ![p].pc = "create"]
                    /\ UNCHANGED resp
    /\ UNCHANGED <<requests, next_id, work_logs, attachments, notifications,
                   outbox, clock, job, auth_user, now, schedVars, coreVars>>

\* form_valid: User.objects.create_user; usernames are unique in the table
AcceptCreateUser(p) ==
    /\ accept[p].pc = "create"
    /\ LET j == accept[p] IN
       IF \E a \in auth_user : a.username = j.data.username
       THEN /\ UNCHANGED auth_user
            /\ accept' = [accept EXCEPT ![p] = IdleJob]
            /\ resp' = Response("accept_invitation", "500", {})
       ELSE /\ auth_user' = auth_user \cup
                  {[username |-> j.data.username, email |-> j.inst.email,
                    groups |-> {}]}
            /\ accept' = [accept EXCEPT
                  ![p].user = j.data.username,
                  ![p].pc = IF j.inst.group # NULL THEN "group" ELSE "save"]
            /\ UNCHANGED resp
    /\ UNCHANGED <<requests, next_id, work_logs, attachments, notifications,
                   outbox, clock, job, invitations, now, schedVars, coreVars>>

\* form_valid: user.groups.add(self.invitation.group)
AcceptGroupAdd(p) ==
    /\ accept[p].pc = "group"
    /\ LET j == accept[p] IN
       auth_user' = {IF a.username = j.user
                     THEN [a EXCEPT !.groups = @ \cup {j.inst.group}]
                     ELSE a : a \in auth_user}
    /\ accept' = [accept EXCEPT ![p].pc = "save"]
    /\ UNCHANGED <<requests, next_id, work_logs, attachments, notifications,
                   outbox, clock, job, resp, invitations, now, schedVars, coreVars>>

\* form_valid: the invitation marked accepted, every column written from the
\* instance loaded in dispatch; then login and the redirect to home
AcceptSave(p) ==
    /\ accept[p].pc = "save"
    /\ LET j == accept[p] IN
       invitations' = [invitations EXCEPT ![j.token] =
           [j.inst EXCEPT !.status = "accepted", !.accepted_at = now,
                          !.accepted_user = j.user]]
    /\ accept' = [accept EXCEPT ![p] = IdleJob]
    /\ resp' = Response("accept_invitation", "redirect_home", {})
    /\ UNCHANGED <<requests, next_id, work_logs, attachments, notifications,
                   outbox, clock, job, auth_user, now, schedVars, coreVars>>

Tokens == 1..MaxInvitations
Inviters == {"sam", "una"}
QuietAccept == \A p \in Workers : accept[p].pc = "idle"

\* Invitations, the acceptance calls of the workers running in parallel
NextInv ==
    \/ TickNow
    \/ \E u \in Inviters, mail \in InviteMails, grp \in InviteGroups :
          InvitationCreate(u, mail, grp)
    \/ \E u \in Inviters, t \in Tokens : CancelInvitation(u, t)
    \/ \E p \in Workers, t \in Tokens, data \in AcceptInputs : AcceptLoad(p, t, data)
    \/ \E p \in Workers : AcceptCheck(p)
    \/ \E p \in Workers : AcceptCreateUser(p)
    \/ \E p \in Workers : AcceptGroupAdd(p)
    \/ \E p \in Workers : AcceptSave(p)

SpecInv == Init /\ [][NextInv]_vars

\* Invitations, one call after the other
NextInvSeq ==
    \/ TickNow
    \/ \E u \in Inviters, mail \in InviteMails, grp \in InviteGroups :
          QuietAccept /\ InvitationCreate(u, mail, grp)
    \/ \E u \in Inviters, t \in Tokens : QuietAccept /\ CancelInvitation(u, t)
    \/ \E t \in Tokens, data \in AcceptInputs : AcceptLoad(1, t, data)
    \/ AcceptCheck(1)
    \/ AcceptCreateUser(1)
    \/ AcceptGroupAdd(1)
    \/ AcceptSave(1)

SpecInvSeq == Init /\ [][NextInvSeq]_vars
\* ------------------------------------------------------------------ C8
\* the acceptance attempt of worker p was turned away at the validity test
TurnedAway(p) ==
    /\ resp' = Response("accept_invitation", "redirect_login", {})
    /\ accept'[p].pc = "idle"
    /\ auth_user' = auth_user

\* the attempt passed the validity test: the form is shown, or the posted
\* form goes on to validation and account creation
LetThrough(p) ==
    /\ invitations' = invitations
    /\ \/ accept'[p].pc = "create"
       \/ resp'.code \in {"form", "form_invalid"}

\* C8 (amended): with acceptance attempts handled one after the other, an
\* attempt passes the validity test exactly when the invitation is pending
\* and the current time is not later than created_at + 7 days, the boundary
\* itself included; an attempt later than that is redirected to the login
\* page, creates no account, and leaves a pending invitation expired, while
\* an invitation that is not pending is turned away with its status kept.
C8_ValidThroughBoundary ==
    [][\A p \in Workers :
          AcceptCheck(p) =>
             LET row == invitations[accept[p].token] IN
             IF row.status = "pending" /\ now <= row.created_at + ValidDays
             THEN LetThrough(p)
             ELSE /\ TurnedAway(p)
                  /\ invitations'[accept[p].token].status =
                        IF row.status = "pending" THEN "expired" ELSE row.status
      ]_vars

\* C8 (as stated): an attempt at or after created_at + 7 days is turned
\* away, creates no account and leaves the invitation expired.
C8_InvalidAtBoundary ==
    [][\A p \in Workers :
          AcceptCheck(p) =>
             LET row == invitations[accept[p].token] IN
             now >= row.created_at + ValidDays =>
                /\ TurnedAway(p)
                /\ invitations'[accept[p].token].status = "expired"
      ]_vars

\* a late attempt was just turned away: the invitation is expired and no
\* account carries its address
C8_Witness ==
    /\ resp = Response("accept_invitation", "redirect_login", {})
    /\ \E t \in DOMAIN invitations :
          /\ invitations[t].status = "expired"
          /\ now > invitations[t].created_at + ValidDays
          /\ ~\E a \in auth_user : a.email = invitations[t].email

\* ------------------------------------------------------------------ C9
\* C9: from one invitation at most one account is ever created: for every
\* invited address there are never more accounts with that address than
\* invitations sent to it, also with acceptance calls running in parallel.
C9_OneAccountPerInvitation ==
    \A m \in InviteMails :
        Cardinality({a \in auth_user : a.email = m})
            <= Cardinality({t \in DOMAIN invitations : invitations[t].email = m})
\* ---------------------------------------------------- maintenance schedules
MaxSchedules == 1
MaxDay == 4
MaxInterval == 2

\* MaintenanceSchedule.last_performed: null

Intervals == -1..MaxInterval
Dates == 1..MaxDay
LastPerformedInputs == {NoDate} \cup Dates
Admins == {"sam", "una"}

\* AdminRequiredMixin.test_func
AdminRequired(u) == is_staff(u) \/ is_superuser(u)

\* ------------------------------------------------------------------ assets
MaxAssets == 2

\* Asset.Category and Asset.Status
AssetCategory == {"hvac", "electrical", "plumbing", "safety", "av", "furniture",
                  "building", "other"}
AssetStatus == {"operational", "attention", "out_of_service", "disposed"}

\* Asset.save: prefix_map.get(self.category, 'OBJ')
prefix_map(category) ==
    CASE category = "hvac" -> "HVAC"
      [] category = "electrical" -> "ELEK"
      [] category = "plumbing" -> "SAN"
      [] category = "safety" -> "VEIL"
      [] category = "av" -> "AV"
      [] category = "furniture" -> "MEUB"
      [] category = "building" -> "GEB"
      [] OTHER -> "OBJ"

\* uuid.uuid4().hex[:6].upper(): the values the generator may return
Uids == {"0A1B2C", "FFFFFF"}

\* Asset.save: f"{prefix}-{uid}", kept as its three parts
GeneratedTag(category, uid) == <<prefix_map(category), "-", uid>>

\* AssetForm.is_valid: name is required; the choices of category, status and
\* location
AssetFormValid(name, category, status, loc) ==
    /\ name # ""
    /\ category \in AssetCategory
    /\ status \in AssetStatus
    /\ loc \in DOMAIN locations \cup {NoRef}

\* the instance Asset.save hands to the INSERT: no tag given, one generated
AssetRow(name, category, status, loc, uid) ==
    [asset_tag |-> GeneratedTag(category, uid), name |-> name,
     category |-> category, status |-> status, location |-> loc]

\* (mutant) the insert without the unique index on asset_tag
TagTakenNever(tag) == FALSE

\* Asset.asset_tag unique=True: the insert of a tag already stored fails
TagTaken(tag) == \E k \in DOMAIN assets : assets[k].asset_tag = tag

\* AssetCreateView, the call running alone: the form has no asset_tag field,
\* save() generates the tag and inserts the row
AssetCreate(u, name, category, status, loc, uid) ==
    /\ next_asset <= MaxAssets
    /\ IF ~AdminRequired(u)
       THEN /\ UNCHANGED <<assets, next_asset>>
            /\ resp' = Response("asset_create", "403", {})
       ELSE IF ~AssetFormValid(name, category, status, loc)
       THEN /\ UNCHANGED <<assets, next_asset>>
            /\ resp' = Response("asset_create", "form_invalid", {})
       ELSE IF TagTaken(GeneratedTag(category, uid))
       THEN /\ UNCHANGED <<assets, next_asset>>
            /\ resp' = Response("asset_create", "500", {})
       ELSE /\ assets' = (next_asset :> AssetRow(name, category, status, loc, uid))
                            @@ assets
            /\ next_asset' = next_asset + 1
            /\ resp' = Response("asset_create", "redirect_asset_list", {})
    /\ UNCHANGED <<requests, next_id, work_logs, attachments, notifications,
                   outbox, clock, job, invVars, schedVars, locations,
                   next_location, core_job, ctx>>

\* AssetCreateView up to the INSERT: test_func, the form, the tag generated
AssetSaveBegin(p, u, name, category, status, loc, uid) ==
    /\ core_job[p].pc = "idle"
    /\ IF ~AdminRequired(u)
       THEN /\ UNCHANGED core_job
            /\ resp' = Response("asset_create", "403", {})
       ELSE IF ~AssetFormValid(name, category, status, loc)
       THEN /\ UNCHANGED core_job
            /\ resp' = Response("asset_create", "form_invalid", {})
       ELSE /\ core_job' = [core_job EXCEPT ![p] =
                  [pc |-> "insert_asset",
                   row |-> AssetRow(name, category, status, loc, uid)]]
            /\ UNCHANGED resp
    /\ UNCHANGED <<requests, next_id, work_logs, attachments, notifications,
                   outbox, clock, job, invVars, schedVars, assets, next_asset,
                   locations, next_location, ctx>>

\* the INSERT of AssetCreateView: the unique index lets one row per tag in
AssetSaveInsert(p) ==
    /\ core_job[p].pc = "insert_asset"
    /\ next_asset <= MaxAssets
    /\ IF TagTaken(core_job[p].row.asset_tag)
       THEN /\ UNCHANGED <<assets, next_asset>>
            /\ resp' = Response("asset_create", "500", {})
       ELSE /\ assets' = (next_asset :> core_job[p].row) @@ assets
            /\ next_asset' = next_asset + 1
            /\ resp' = Response("asset_create", "redirect_asset_list", {})
    /\ core_job' = [core_job EXCEPT ![p] = IdleJob]
    /\ UNCHANGED <<requests, next_id, work_logs, attachments, notifications,
                   outbox, clock, job, invVars, schedVars, locations,
                   next_location, ctx>>

\* what a run of import_data ends with: an exception, the lines of a dry
\* run, or "... import complete"
ImportCode(failed, dry_run) ==
    IF failed THEN "error" ELSE IF dry_run THEN "dry_run" ELSE "complete"

\* (mutant) a lookup that falls back on the first location of the table
FirstNamedOrAny(locs, name) ==
    IF DOMAIN locs = {} THEN NoRef
    ELSE CHOOSE k \in DOMAIN locs :
            IF \E j \in DOMAIN locs : locs[j].name = name
            THEN /\ locs[k].name = name
                 /\ \A j \in DOMAIN locs : locs[j].name = name => k <= j
            ELSE \A j \in DOMAIN locs : k <= j

\* Location.objects.filter(name=...).first(), Meta.ordering by name
FirstNamed(locs, name) ==
    IF \E k \in DOMAIN locs : locs[k].name = name
    THEN CHOOSE k \in DOMAIN locs :
            /\ locs[k].name = name
            /\ \A j \in DOMAIN locs : locs[j].name = name => k <= j
    ELSE NoRef

\* import_assets, item after item: an item without name is skipped, the
\* location is looked up by name and left empty when there is none,
\* get_or_create by name inserts with a generated tag; the i-th item draws
\* the suffix uids[i]; st holds the table, the next key and a failure
RECURSIVE AssetsPass(_, _, _, _)
AssetsPass(st, locs, data, uids) ==
    IF data = <<>> \/ st.failed THEN st
    ELSE LET item == Head(data)
             same == {k \in DOMAIN st.assets : st.assets[k].name = item.name}
             location == IF item.location # ""
                         THEN FirstNamed(locs, item.location) ELSE NoRef
             row == AssetRow(item.name, item.category, "operational",
                             location, Head(uids))
         IN  IF item.name = ""
             THEN AssetsPass(st, locs, Tail(data), Tail(uids))
             ELSE IF Cardinality(same) > 1
             THEN [st EXCEPT !.failed = TRUE]
             ELSE IF same # {}
             THEN AssetsPass(st, locs, Tail(data), Tail(uids))
             ELSE IF \E k \in DOMAIN st.assets :
                        st.assets[k].asset_tag = row.asset_tag
             THEN [st EXCEPT !.failed = TRUE]
             ELSE AssetsPass([st EXCEPT !.assets = (st.next :> row) @@ st.assets,
                                        !.next = st.next + 1],
                             locs, Tail(data), Tail(uids))

\* the table after import_assets: one transaction, an exception rolls
\* everything back; with --dry-run every item is left before its lookup
AssetsImported(rows, next, locs, data, uids, dry_run) ==
    LET start == [assets |-> rows, next |-> next, failed |-> FALSE]
        pass == IF dry_run THEN start ELSE AssetsPass(start, locs, data, uids)
    IN  IF pass.failed THEN [start EXCEPT !.failed = TRUE] ELSE pass

import_assets(data, uids, dry_run) ==
    LET done == AssetsImported(assets, next_asset, locations, data, uids, dry_run)
    IN  /\ done.next <= MaxAssets + 1
        /\ assets' = done.assets
        /\ next_asset' = done.next
        /\ resp' = Response("import_assets",
                            ImportCode(done.failed, dry_run),
                            DOMAIN done.assets \ DOMAIN assets)
        /\ UNCHANGED <<requests, next_id, work_logs, attachments, notifications,
                       outbox, clock, job, invVars, schedVars, locations,
                       next_location, core_job, ctx>>

\* AssetUpdateView: the tag is no form field and stays as stored
AssetUpdate(u, pk, name, category, status, loc) ==
    /\ IF ~AdminRequired(u)
       THEN /\ UNCHANGED assets
            /\ resp' = Response("asset_update", "403", {})
       ELSE IF pk \notin DOMAIN assets
       THEN /\ UNCHANGED assets
            /\ resp' = Response("asset_update", "404", {})
       ELSE IF ~AssetFormValid(name, category, status, loc)
       THEN /\ UNCHANGED assets
            /\ resp' = Response("asset_update", "form_invalid", {})
       ELSE /\ assets' = [assets EXCEPT ![pk].name = name,
                                         ![pk].category = category,
                                         ![pk].status = status,
                                         ![pk].location = loc]
            /\ resp' = Response("asset_update", "redirect_asset_list", {})
    /\ UNCHANGED <<requests, next_id, work_logs, attachments, notifications,
                   outbox, clock, job, invVars, schedVars, next_asset,
                   locations, next_location, core_job, ctx>>

\* AssetDeleteView: form_valid deletes without a test; the schedules of the
\* asset cascade, RepairRequest.asset is set to null
AssetDelete(u, pk) ==
    /\ IF ~AdminRequired(u)
       THEN /\ UNCHANGED <<assets, schedules, requests>>
            /\ resp' = Response("asset_delete", "403", {})
       ELSE IF pk \notin DOMAIN assets
       THEN /\ UNCHANGED <<assets, schedules, requests>>
            /\ resp' = Response("asset_delete", "404", {})
       ELSE /\ assets' = [k \in DOMAIN assets \ {pk} |-> assets[k]]
            /\ schedules' = [k \in {j \in DOMAIN schedules : schedules[j].asset # pk}
                                |-> schedules[k]]
            /\ requests' = [k \in DOMAIN requests |->
                                IF requests[k].asset = pk
                                THEN [requests[k] EXCEPT !.asset = NoRef]
                                ELSE requests[k]]
            /\ resp' = Response("asset_delete", "redirect_asset_list", {})
    /\ UNCHANGED <<next_id, work_logs, attachments, notifications, outbox, clock,
                   job, invVars, next_schedule, today, next_asset, locations,
                   next_location, core_job, ctx>>

AssetPks == 1..MaxAssets

\* MaintenanceScheduleForm: interval_days is a PositiveIntegerField
ScheduleFormValid(interval) == interval >= 0

\* MaintenanceSchedule.next_due_date
next_due_date(s) ==
    IF s.last_performed = NoDate
    THEN today
    ELSE s.last_performed + s.interval_days

\* (mutant) due only once the due date has passed
is_dueAfter(s) == next_due_date(s) < today

\* MaintenanceSchedule.is_due
is_due(s) == next_due_date(s) <= today

\* MaintenanceSchedule.days_until_due
days_until_due(s) == next_due_date(s) - today

\* the passing of days
TickToday ==
    /\ today < MaxDay
    /\ today' = today + 1
    /\ UNCHANGED <<requests, next_id, work_logs, attachments, notifications,
                   outbox, clock, job, resp, invVars, coreVars, schedules, next_schedule>>

\* MaintenanceScheduleCreateView
MaintenanceScheduleCreate(u, asset_pk, interval, last) ==
    /\ next_schedule <= MaxSchedules
    /\ IF ~AdminRequired(u)
       THEN /\ UNCHANGED <<schedules, next_schedule>>
            /\ resp' = Response("schedule_create", "403", {})
       ELSE IF asset_pk \notin DOMAIN assets
       THEN /\ UNCHANGED <<schedules, next_schedule>>
            /\ resp' = Response("schedule_create", "404", {})
       ELSE IF ~ScheduleFormValid(interval)
       THEN /\ UNCHANGED <<schedules, next_schedule>>
            /\ resp' = Response("schedule_create", "form_invalid", {})
       ELSE /\ schedules' = (next_schedule :>
                  [asset |-> asset_pk, interval_days |-> interval,
                   last_performed |-> last]) @@ schedules
            /\ next_schedule' = next_schedule + 1
            /\ resp' = Response("schedule_create", "redirect_asset_detail", {})
    /\ UNCHANGED <<requests, next_id, work_logs, attachments, notifications,
                   outbox, clock, job, invVars, coreVars, today>>

\* MaintenanceScheduleUpdateView
MaintenanceScheduleUpdate(u, pk, interval, last) ==
    /\ IF ~AdminRequired(u)
       THEN /\ UNCHANGED schedules
            /\ resp' = Response("schedule_update", "403", {})
       ELSE IF pk \notin DOMAIN schedules
       THEN /\ UNCHANGED schedules
            /\ resp' = Response("schedule_update", "404", {})
       ELSE IF ~ScheduleFormValid(interval)
       THEN /\ UNCHANGED schedules
            /\ resp' = Response("schedule_update", "form_invalid", {})
       ELSE /\ schedules' = [schedules EXCEPT
                  ![pk].interval_days = interval, ![pk].last_performed = last]
            /\ resp' = Response("schedule_update", "redirect_asset_detail", {})
    /\ UNCHANGED <<requests, next_id, work_logs, attachments, notifications,
                   outbox, clock, job, invVars, coreVars, next_schedule, today>>

\* MaintenanceScheduleDeleteView
MaintenanceScheduleDelete(u, pk) ==
    /\ IF ~AdminRequired(u)
       THEN /\ UNCHANGED schedules
            /\ resp' = Response("schedule_delete", "403", {})
       ELSE IF pk \notin DOMAIN schedules
       THEN /\ UNCHANGED schedules
            /\ resp' = Response("schedule_delete", "404", {})
       ELSE /\ schedules' = [k \in DOMAIN schedules \ {pk} |-> schedules[k]]
            /\ resp' = Response("schedule_delete", "redirect_asset_detail", {})
    /\ UNCHANGED <<requests, next_id, work_logs, attachments, notifications,
                   outbox, clock, job, invVars, coreVars, next_schedule, today>>

\* perform_maintenance: any logged-in user
perform_maintenance(u, pk) ==
    /\ IF ~is_authenticated(u)
       THEN /\ UNCHANGED schedules
            /\ resp' = Response("perform_maintenance", "redirect_login", {})
       ELSE IF pk \notin DOMAIN schedules
       THEN /\ UNCHANGED schedules
            /\ resp' = Response("perform_maintenance", "404", {})
       ELSE /\ schedules' = [schedules EXCEPT ![pk].last_performed = today]
            /\ resp' = Response("perform_maintenance", "redirect_asset_detail", {})
    /\ UNCHANGED <<requests, next_id, work_logs, attachments, notifications,
                   outbox, clock, job, invVars, coreVars, next_schedule, today>>

SchedulePks == 1..MaxSchedules

NextSched ==
    \/ TickToday
    \/ AssetCreate("sam", "boiler", "other", "operational", NoRef, "0A1B2C")
    \/ \E u \in Admins, a \in AssetPks, i \in Intervals, d \in LastPerformedInputs :
          MaintenanceScheduleCreate(u, a, i, d)
    \/ \E u \in Admins, pk \in SchedulePks, i \in Intervals, d \in LastPerformedInputs :
          MaintenanceScheduleUpdate(u, pk, i, d)
    \/ \E u \in Admins, pk \in SchedulePks : MaintenanceScheduleDelete(u, pk)
    \/ \E u \in {"una", ANON}, pk \in SchedulePks : perform_maintenance(u, pk)

SpecSched == Init /\ [][NextSched]_vars

\* ----------------------------------------------------------------- C10
\* C10: for every schedule, next_due_date is last_performed + interval_days
\* when last_performed is set and today when it is null; is_due is true
\* exactly when next_due_date <= today; a schedule never performed is due;
\* days_until_due is negative exactly when the due date lies before today.
C10_DueDate ==
    \A pk \in DOMAIN schedules :
        LET s == schedules[pk]
            due == IF s.last_performed # NoDate
                   THEN s.last_performed + s.interval_days
                   ELSE today
        IN  /\ next_due_date(s) = due
            /\ is_due(s) <=> due <= today
            /\ s.last_performed = NoDate => is_due(s)
            /\ days_until_due(s) < 0 <=> due < today

\* a schedule performed before, its due date one day in the past: overdue
C10_Witness ==
    \E b \in DOMAIN schedules :
        /\ schedules[b].last_performed # NoDate
        /\ schedules[b].interval_days > 0
        /\ schedules[b].last_performed + schedules[b].interval_days = today - 1
        /\ days_until_due(schedules[b]) = -1
        /\ is_due(schedules[b])

\* ---------------------------------------------------------------- locations
MaxLocations == 2

LocationPks == 1..MaxLocations
LocationNames == {"hall", "attic"}

\* LocationForm.is_valid: name is required, parent is any stored location
LocationFormValid(name, parent) ==
    /\ name # ""
    /\ parent \in DOMAIN locations \cup {NoRef}

\* LocationCreateView
LocationCreate(u, name, parent) ==
    /\ next_location <= MaxLocations
    /\ IF ~AdminRequired(u)
       THEN /\ UNCHANGED <<locations, next_location>>
            /\ resp' = Response("location_create", "403", {})
       ELSE IF ~LocationFormValid(name, parent)
       THEN /\ UNCHANGED <<locations, next_location>>
            /\ resp' = Response("location_create", "form_invalid", {})
       ELSE /\ locations' = (next_location :> [name |-> name, parent |-> parent])
                               @@ locations
            /\ next_location' = next_location + 1
            /\ resp' = Response("location_create", "redirect_location_list", {})
    /\ UNCHANGED <<requests, next_id, work_logs, attachments, notifications,
                   outbox, clock, job, invVars, schedVars, assets, next_asset,
                   core_job, ctx>>

\* LocationUpdateView: the form offers every location as parent
LocationUpdate(u, pk, name, parent) ==
    /\ IF ~AdminRequired(u)
       THEN /\ UNCHANGED locations
            /\ resp' = Response("location_update", "403", {})
       ELSE IF pk \notin DOMAIN locations
       THEN /\ UNCHANGED locations
            /\ resp' = Response("location_update", "404", {})
       ELSE IF ~LocationFormValid(name, parent)
       THEN /\ UNCHANGED locations
            /\ resp' = Response("location_update", "form_invalid", {})
       ELSE /\ locations' = [locations EXCEPT ![pk] =
                                [name |-> name, parent |-> parent]]
            /\ resp' = Response("location_update", "redirect_location_list", {})
    /\ UNCHANGED <<requests, next_id, work_logs, attachments, notifications,
                   outbox, clock, job, invVars, schedVars, assets, next_asset,
                   next_location, core_job, ctx>>

\* the locations reached from pk by one to n parent links, in table locs
RECURSIVE Above(_, _, _)
Above(locs, pk, n) ==
    IF n = 0 \/ pk \notin DOMAIN locs \/ locs[pk].parent = NoRef THEN {}
    ELSE {locs[pk].parent} \cup Above(locs, locs[pk].parent, n - 1)

\* Location.__str__ / get_full_path never return: a parent chain that comes
\* back to a location it passed
Endless(locs, pk) ==
    \E k \in {pk} \cup Above(locs, pk, Cardinality(DOMAIN locs)) :
        k \in Above(locs, k, Cardinality(DOMAIN locs))

\* location_create_ajax: login only; the row is created before str(location)
\* is built, whose failure is answered like every exception
location_create_ajax(u, name, parent_id) ==
    /\ next_location <= MaxLocations
    /\ IF ~is_authenticated(u)
       THEN /\ UNCHANGED <<locations, next_location>>
            /\ resp' = Response("location_create_ajax", "redirect_login", {})
       ELSE IF name = ""
       THEN /\ UNCHANGED <<locations, next_location>>
            /\ resp' = Response("location_create_ajax", "400", {})
       ELSE LET parent == IF parent_id \in DOMAIN locations
                          THEN parent_id ELSE NoRef
            IN  /\ locations' = (next_location :>
                                    [name |-> name, parent |-> parent])
                                   @@ locations
                /\ next_location' = next_location + 1
                /\ resp' = Response("location_create_ajax",
                                    IF Endless(locations', next_location)
                                    THEN "400" ELSE "200", {next_location})
    /\ UNCHANGED <<requests, next_id, work_logs, attachments, notifications,
                   outbox, clock, job, invVars, schedVars, assets, next_asset,
                   core_job, ctx>>

\* import_locations, first pass: get_or_create by name, item after item;
\* st holds the table, the next key, the names created and a failure
RECURSIVE FirstPass(_, _)
FirstPass(st, data) ==
    IF data = <<>> \/ st.failed THEN st
    ELSE LET item == Head(data)
             same == {k \in DOMAIN st.locs : st.locs[k].name = item.name}
         IN  IF item.name = "" THEN FirstPass(st, Tail(data))
             ELSE IF Cardinality(same) > 1
             THEN [st EXCEPT !.failed = TRUE]
             ELSE IF same # {}
             THEN FirstPass([st EXCEPT !.created =
                                (item.name :> FirstNamed(st.locs, item.name))
                                    @@ st.created],
                            Tail(data))
             ELSE FirstPass([st EXCEPT
                                !.locs = (st.next :> [name |-> item.name,
                                                      parent |-> NoRef])
                                            @@ st.locs,
                                !.next = st.next + 1,
                                !.created = (item.name :> st.next) @@ st.created],
                            Tail(data))

\* import_locations, second pass: the parent looked up by name and saved;
\* st.saved holds the rows loc.save() has written, each write stamping the
\* row's updated_at (auto_now) anew
RECURSIVE SecondPass(_, _)
SecondPass(st, data) ==
    IF data = <<>> THEN st
    ELSE LET item == Head(data)
             parent == FirstNamed(st.locs, item.parent)
         IN  IF item.parent # "" /\ item.name \in DOMAIN st.created
                /\ parent # NoRef
             THEN SecondPass([st EXCEPT
                                 !.locs[st.created[item.name]].parent = parent,
                                 !.saved = st.saved \cup {st.created[item.name]}],
                             Tail(data))
             ELSE SecondPass(st, Tail(data))

\* the table after import_locations: both passes in one transaction, an
\* exception rolls everything back; with --dry-run the first pass leaves every
\* item before its get_or_create and the second pass is not run
LocationsImported(locs, next, data, dry_run) ==
    LET start == [locs |-> locs, next |-> next,
                  created |-> <<>>, failed |-> FALSE, saved |-> {}]
        first == IF dry_run THEN start ELSE FirstPass(start, data)
        second == IF dry_run THEN first ELSE SecondPass(first, data)
    IN  IF first.failed THEN [start EXCEPT !.failed = TRUE] ELSE second

import_locations(data, dry_run) ==
    LET done == LocationsImported(locations, next_location, data, dry_run)
    IN  /\ done.next <= MaxLocations + 1
        /\ locations' = done.locs
        /\ next_location' = done.next
        /\ resp' = Response("import_locations",
                            ImportCode(done.failed, dry_run),
                            DOMAIN done.locs \ DOMAIN locations)
        /\ UNCHANGED <<requests, next_id, work_logs, attachments, notifications,
                       outbox, clock, job, invVars, schedVars, assets,
                       next_asset, core_job, ctx>>

\* location.assets / location.repair_requests / location.children .exists()
HasAssets(pk) == \E k \in DOMAIN assets : assets[k].location = pk
HasRequests(pk) == \E k \in DOMAIN requests : requests[k].location = pk
HasChildren(pk) == \E k \in DOMAIN locations : locations[k].parent = pk

\* LocationDeleteView.form_valid up to the delete: the three tests
LocationDeleteCheck(p, u, pk) ==
    /\ core_job[p].pc = "idle"
    /\ IF ~AdminRequired(u)
       THEN /\ UNCHANGED core_job
            /\ resp' = Response("location_delete", "403", {})
       ELSE IF pk \notin DOMAIN locations
       THEN /\ UNCHANGED core_job
            /\ resp' = Response("location_delete", "404", {})
       ELSE IF HasAssets(pk) \/ HasRequests(pk) \/ HasChildren(pk)
       THEN /\ UNCHANGED core_job
            /\ resp' = Response("location_delete", "refused", {})
       ELSE /\ core_job' = [core_job EXCEPT ![p] =
                               [pc |-> "delete_location", pk |-> pk]]
            /\ UNCHANGED resp
    /\ UNCHANGED <<requests, next_id, work_logs, attachments, notifications,
                   outbox, clock, job, invVars, schedVars, assets, next_asset,
                   locations, next_location, ctx>>

\* super().form_valid: self.object.delete(); the foreign keys to the
\* location are SET_NULL
LocationDeleteRun(p) ==
    /\ core_job[p].pc = "delete_location"
    /\ LET pk == core_job[p].pk IN
        /\ locations' = [k \in DOMAIN locations \ {pk} |->
                            IF locations[k].parent = pk
                            THEN [locations[k] EXCEPT !.parent = NoRef]
                            ELSE locations[k]]
        /\ assets' = [k \in DOMAIN assets |->
                         IF assets[k].location = pk
                         THEN [assets[k] EXCEPT !.location = NoRef]
                         ELSE assets[k]]
        /\ requests' = [k \in DOMAIN requests |->
                           IF requests[k].location = pk
                           THEN [requests[k] EXCEPT !.location = NoRef]
                           ELSE requests[k]]
    /\ core_job' = [core_job EXCEPT ![p] = IdleJob]
    /\ resp' = Response("location_delete", "redirect_location_list", {})
    /\ UNCHANGED <<next_id, work_logs, attachments, notifications, outbox,
                   clock, job, invVars, schedVars, next_asset, next_location,
                   ctx>>

\* CreateRequestView.form_valid for a form that names location and asset:
\* RepairRequestForm requires the location, the asset may be left empty
CreateRequestAt(u, mail, loc, ast) ==
    /\ next_id <= MaxRequests
    /\ Len(work_logs) < MaxLogs
    /\ IF loc \notin DOMAIN locations \/ ast \notin DOMAIN assets \cup {NoRef}
       THEN /\ UNCHANGED <<requests, next_id, work_logs, outbox>>
            /\ resp' = Response("create", "form_invalid", {})
       ELSE /\ requests' = (next_id :> [NewRequest(u, mail) EXCEPT
                                           !.location = loc, !.asset = ast])
                              @@ requests
            /\ next_id' = next_id + 1
            /\ work_logs' = Append(work_logs, CreatedLog(next_id, u))
            /\ outbox' = Append(outbox, [to |-> FACILITIES_INBOX_EMAIL,
                                         pk |-> next_id, ok |-> TRUE])
            /\ resp' = Response("create", "redirect_confirmation", {})
    /\ UNCHANGED <<invVars, coreVars, schedVars, attachments, notifications,
                   clock, job>>

\* ------------------------------------- import_data: requests and accounts
\* Asset.Meta.ordering is asset_tag: the tags in ascending order, by their
\* prefix and their suffix
PrefixOrder == <<"AV", "ELEK", "GEB", "HVAC", "MEUB", "OBJ", "SAN", "VEIL">>
UidOrder == <<"0A1B2C", "FFFFFF">>
IndexIn(seq, x) == CHOOSE i \in DOMAIN seq : seq[i] = x
TagRank(tag) == IndexIn(PrefixOrder, tag[1]) * Len(UidOrder) + IndexIn(UidOrder, tag[3])

\* Asset.objects.filter(name=...).first()
FirstAssetNamed(asts, name) ==
    IF \E k \in DOMAIN asts : asts[k].name = name
    THEN CHOOSE k \in DOMAIN asts :
            /\ asts[k].name = name
            /\ \A j \in DOMAIN asts :
                  asts[j].name = name =>
                      TagRank(asts[k].asset_tag) <= TagRank(asts[j].asset_tag)
    ELSE NoRef

\* the row get_or_create inserts for an item of the requests file
ImportedRequest(item, location, asset) ==
    [NewRequest(ANON, "") EXCEPT !.title = item.title,
                                 !.description = "",
                                 !.location = location,
                                 !.asset = asset]

\* (mutant) every item with a title inserted, stored already or not
RECURSIVE RequestsPassCreate(_, _, _, _)
RequestsPassCreate(st, locs, asts, data) ==
    IF data = <<>> THEN st
    ELSE LET item == Head(data)
             location == IF item.location # ""
                         THEN FirstNamed(locs, item.location) ELSE NoRef
             asset == IF item.asset # ""
                      THEN FirstAssetNamed(asts, item.asset) ELSE NoRef
         IN  IF item.title = ""
             THEN RequestsPassCreate(st, locs, asts, Tail(data))
             ELSE RequestsPassCreate(
                     [st EXCEPT !.requests =
                                   (st.next :> ImportedRequest(item, location, asset))
                                       @@ st.requests,
                                !.next = st.next + 1],
                     locs, asts, Tail(data))

\* import_requests, item after item: an item without title is skipped, the
\* location and the asset are looked up by name and left empty when there is
\* none, get_or_create by title among the rows of the default manager
RECURSIVE RequestsPass(_, _, _, _)
RequestsPass(st, locs, asts, data) ==
    IF data = <<>> \/ st.failed THEN st
    ELSE LET item == Head(data)
             same == {k \in DOMAIN st.requests :
                         /\ ~st.requests[k].is_deleted
                         /\ st.requests[k].title = item.title}
             location == IF item.location # ""
                         THEN FirstNamed(locs, item.location) ELSE NoRef
             asset == IF item.asset # ""
                      THEN FirstAssetNamed(asts, item.asset) ELSE NoRef
         IN  IF item.title = ""
             THEN RequestsPass(st, locs, asts, Tail(data))
             ELSE IF Cardinality(same) > 1
             THEN [st EXCEPT !.failed = TRUE]
             ELSE IF same # {}
             THEN RequestsPass(st, locs, asts, Tail(data))
             ELSE RequestsPass(
                     [st EXCEPT !.requests =
                                   (st.next :> ImportedRequest(item, location, asset))
                                       @@ st.requests,
                                !.next = st.next + 1],
                     locs, asts, Tail(data))

\* the table after import_requests: one transaction
RequestsImported(rows, next, locs, asts, data, dry_run) ==
    LET start == [requests |-> rows, next |-> next, failed |-> FALSE]
        pass == IF dry_run THEN start ELSE RequestsPass(start, locs, asts, data)
    IN  IF pass.failed THEN [start EXCEPT !.failed = TRUE] ELSE pass

import_requests(data, dry_run) ==
    LET done == RequestsImported(requests, next_id, locations, assets,
                                 data, dry_run)
    IN  /\ done.next <= MaxRequests + 1
        /\ requests' = done.requests
        /\ next_id' = done.next
        /\ resp' = Response("import_requests",
                            ImportCode(done.failed, dry_run),
                            DOMAIN done.requests \ DOMAIN requests)
        /\ UNCHANGED <<work_logs, attachments, notifications, outbox, clock,
                       job, invVars, schedVars, coreVars>>

\* the row create_user and the lines after it store for an item of the
\* accounts file; the profile's must_change_password is kept with the row
DefaultPassword == "Welcome123!"
ImportedAccount(item) ==
    [username |-> item.username, email |-> item.email, groups |-> {},
     password |-> IF item.password = "" THEN DefaultPassword ELSE item.password,
     is_staff |-> item.is_staff, is_superuser |-> FALSE,
     must_change_password |-> TRUE]

\* import_accounts, item after item: an item without username or e-mail is
\* skipped, and so is one whose username or e-mail is stored already
RECURSIVE AccountsPass(_, _)
AccountsPass(users, data) ==
    IF data = <<>> THEN users
    ELSE LET item == Head(data)
         IN  IF item.username = "" \/ item.email = ""
             THEN AccountsPass(users, Tail(data))
             ELSE IF \E a \in users : a.username = item.username
             THEN AccountsPass(users, Tail(data))
             ELSE IF \E a \in users : a.email = item.email
             THEN AccountsPass(users, Tail(data))
             ELSE AccountsPass(users \cup {ImportedAccount(item)}, Tail(data))

AccountsImported(users, data, dry_run) ==
    IF dry_run THEN users ELSE AccountsPass(users, data)

import_accounts(data, dry_run) ==
    /\ Cardinality(AccountsImported(auth_user, data, dry_run)) <= MaxAccounts
    /\ auth_user' = AccountsImported(auth_user, data, dry_run)
    /\ resp' = Response("import_accounts", ImportCode(FALSE, dry_run), {})
    /\ UNCHANGED <<requests, next_id, work_logs, attachments, notifications,
                   outbox, clock, job, invitations, now, accept, schedVars,
                   coreVars>>

\* ------------------------------------------------------------ the planner
MaxPlanned == 2

\* the cap of _get_list_context: "while ... and count < 10"
MaxPerSchedule == 10
\* _get_list_context: end_date = today + timedelta(days=60)
ListDays == 60

\* the calendar of one year without a leap day that starts on a Monday;
\* a date is the number of its day, 1 January being day 1
MonthLen == <<31, 28, 31, 30, 31, 30, 31, 31, 30, 31, 30, 31>>

RECURSIVE DaysBefore(_)
DaysBefore(month) ==
    IF month = 1 THEN 0 ELSE MonthLen[month - 1] + DaysBefore(month - 1)

\* date(year, month, 1)
first_day(month) == DaysBefore(month) + 1
\* date(year, month, calendar.monthrange(year, month)[1])
last_day(month) == DaysBefore(month) + MonthLen[month]
\* date.weekday(): Monday is 0
weekday(d) == (d - 1) % 7
\* _get_week_context: jan4 - timedelta(days=jan4.weekday())
week1_monday == 4 - weekday(4)
\* _get_week_context: week1_monday + timedelta(weeks=week_num - 1)
week_monday(week_num) == week1_monday + 7 * (week_num - 1)
\* _get_week_context: week_monday + timedelta(days=6)
week_sunday(week_num) == week_monday(week_num) + 6

\* PlannerView.test_func
PlannerTest(u) ==
    (is_staff(u) \/ is_superuser(u))
        \/ groups(u) \cap {"Facilitair", "Beheerders"} # {}

\* MaintenanceSchedule.objects.filter(asset__status__in=[OPERATIONAL,
\* ATTENTION])
PlannedSchedules ==
    {k \in DOMAIN schedules :
        /\ schedules[k].asset \in DOMAIN assets
        /\ assets[schedules[k].asset].status \in {"operational", "attention"}}

\* "days_diff // interval" with interval 0: ZeroDivisionError
DividesByZero(s, start) == next_due_date(s) < start /\ s.interval_days = 0

\* "while check_date <= last: ... check_date += timedelta(days=0)"
NeverEnds(s, start, last) ==
    /\ s.interval_days = 0
    /\ start <= next_due_date(s)
    /\ next_due_date(s) <= last

\* (mutant) the skip-forward without its last step
SkipForwardShort(next_maint, interval, start) ==
    IF next_maint < start
    THEN next_maint + ((start - next_maint) \div interval) * interval
    ELSE next_maint

\* (mutant) the skip-forward that restarts the interval at the window start
SkipForwardFromStart(next_maint, interval, start) ==
    IF next_maint < start THEN start + interval ELSE next_maint

\* the skip-forward of the three planner views (views.py 586-592, 689-695,
\* 760-766)
SkipForward(next_maint, interval, start) ==
    IF next_maint < start
    THEN LET days_diff == start - next_maint
             intervals_to_skip == days_diff \div interval
             check_date == next_maint + intervals_to_skip * interval
         IN  IF check_date < start THEN check_date + interval ELSE check_date
    ELSE next_maint

\* "while check_date <= last_day: ...; check_date += timedelta(days=interval)"
RECURSIVE Occurrences(_, _, _)
Occurrences(check_date, interval, last) ==
    IF check_date <= last
    THEN {check_date} \cup Occurrences(check_date + interval, interval, last)
    ELSE {}

\* the dates one schedule is entered under in a window
Projected(s, start, last) ==
    Occurrences(SkipForward(next_due_date(s), s.interval_days, start),
                s.interval_days, last)

\* maintenance_by_day / maintenance_by_date: key -> the schedules entered
\* under it, every schedule once; the key of date d is d - before, which is
\* check_date.day with before the days ahead of the month, and check_date
\* itself with before 0
MaintenanceBy(start, last, before) ==
    LET dates == UNION {Projected(schedules[k], start, last) :
                            k \in PlannedSchedules}
    IN  [key \in {d - before : d \in dates} |->
            {k \in PlannedSchedules :
                \E d \in Projected(schedules[k], start, last) :
                    d - before = key}]

\* the schedules the loop cannot get past, in the order of the queryset
\* (Meta.ordering asset, name; names taken in the order of the keys)
Faulty(start, last) ==
    {k \in PlannedSchedules :
        \/ DividesByZero(schedules[k], start)
        \/ NeverEnds(schedules[k], start, last)}

\* the same for the loop of the list view, which its count ends
FaultyCapped(start) ==
    {k \in PlannedSchedules : DividesByZero(schedules[k], start)}

\* Meta.ordering of MaintenanceSchedule
Before(k, j) ==
    \/ schedules[k].asset < schedules[j].asset
    \/ (schedules[k].asset = schedules[j].asset /\ k <= j)

FirstFaulty(faulty) == CHOOSE k \in faulty : \A j \in faulty : Before(k, j)

\* the outcome of a view whose loop meets a schedule with interval 0: the
\* division raises, or the worker stays in the loop until it is stopped
FaultCode(faulty, start) ==
    IF DividesByZero(schedules[FirstFaulty(faulty)], start)
    THEN "500"
    ELSE "timeout"

\* the part shared by the planner views: login, test_func, the loop
PlannerRender(u, op, start, faulty, page) ==
    /\ IF ~is_authenticated(u)
       THEN /\ resp' = Response(op, "redirect_login", {})
            /\ UNCHANGED ctx
       ELSE IF ~PlannerTest(u)
       THEN /\ resp' = Response(op, "403", {})
            /\ UNCHANGED ctx
       ELSE IF faulty # {}
       THEN /\ resp' = Response(op, FaultCode(faulty, start), {})
            /\ UNCHANGED ctx
       ELSE /\ resp' = Response(op, "200", {})
            /\ ctx' = page
    /\ UNCHANGED <<requests, next_id, work_logs, attachments, notifications,
                   outbox, clock, job, invVars, schedVars, assets, next_asset,
                   locations, next_location, core_job>>

\* PlannerView._get_month_context: the key is check_date.day
PlannerMonth(u, month) ==
    PlannerRender(u, "planner_month", first_day(month),
                  Faulty(first_day(month), last_day(month)),
        [NoCtx EXCEPT !.view = "month",
                      !.first = first_day(month),
                      !.last = last_day(month),
                      !.maintenance =
                          MaintenanceBy(first_day(month), last_day(month),
                                        DaysBefore(month))])

\* PlannerView._get_week_context: the key is check_date
PlannerWeek(u, week_num) ==
    PlannerRender(u, "planner_week", week_monday(week_num),
                  Faulty(week_monday(week_num), week_sunday(week_num)),
        [NoCtx EXCEPT !.view = "week",
                      !.first = week_monday(week_num),
                      !.last = week_sunday(week_num),
                      !.maintenance =
                          MaintenanceBy(week_monday(week_num),
                                        week_sunday(week_num), 0)])

\* _get_list_context: "while check_date <= end_date and count < 10"
RECURSIVE UpcomingOf(_, _, _, _)
UpcomingOf(k, check_date, end_date, count) ==
    IF check_date <= end_date /\ count < MaxPerSchedule
    THEN <<[schedule |-> k, date |-> check_date,
            is_overdue |-> check_date < today]>>
         \o UpcomingOf(k, check_date + schedules[k].interval_days, end_date,
                       count + 1)
    ELSE <<>>

\* the schedules of a set in the order of the queryset
RECURSIVE InOrder(_)
InOrder(ks) ==
    IF ks = {} THEN <<>>
    ELSE LET k == CHOOSE i \in ks : \A j \in ks : Before(i, j)
         IN  <<k>> \o InOrder(ks \ {k})

\* the list before its sort: the occurrences schedule after schedule
RECURSIVE Appended(_, _)
Appended(order, end_date) ==
    IF order = <<>> THEN <<>>
    ELSE UpcomingOf(Head(order),
                    SkipForward(next_due_date(schedules[Head(order)]),
                                schedules[Head(order)].interval_days, today),
                    end_date, 0)
         \o Appended(Tail(order), end_date)

RECURSIVE InsertByDate(_, _)
InsertByDate(sorted, m) ==
    IF sorted = <<>> THEN <<m>>
    ELSE IF Head(sorted).date <= m.date
    THEN <<Head(sorted)>> \o InsertByDate(Tail(sorted), m)
    ELSE <<m>> \o sorted

\* (mutant) the list left in the order the loop appended it
SortByDateNot(list) == list

\* upcoming_maintenance.sort(key=lambda m: m['date']): a stable sort
RECURSIVE SortByDate(_)
SortByDate(list) ==
    IF list = <<>> THEN <<>>
    ELSE InsertByDate(SortByDate(SubSeq(list, 1, Len(list) - 1)),
                      list[Len(list)])

\* PlannerView._get_list_context
PlannerList(u) ==
    PlannerRender(u, "planner_list", today, FaultyCapped(today),
        [NoCtx EXCEPT !.view = "list",
                      !.first = today,
                      !.last = today + ListDays,
                      !.upcoming_maintenance =
                          SortByDate(Appended(InOrder(PlannedSchedules),
                                              today + ListDays))])

\* the schedules, the asset and the day the planner is asked about
PlanIntervals == {0, 1, 2, 7, 30}
PlanLast == {NoDate, 17, 20, 61}
\* the first schedule is any of PlanRows, the ones beside it are of PlanMore
PlanRows == [asset : {1}, interval_days : PlanIntervals,
             last_performed : PlanLast]
PlanMore == [asset : {1}, interval_days : {0, 1, 7},
             last_performed : {NoDate, 45}]
PlanToday == {50, 65}
PlanStatuses == {"operational", "out_of_service"}
PlanMonths == {2, 3}
PlanWeeks == {8, 9, 10}
PlanUsers == {"vic", "una"}

InitPlan ==
    /\ requests = <<>>
    /\ next_id = 1
    /\ work_logs = <<>>
    /\ attachments = <<>>
    /\ notifications = <<>>
    /\ outbox = <<>>
    /\ clock = 1
    /\ job = [p \in Workers |-> IdleJob]
    /\ resp = NoResp
    /\ invitations = <<>>
    /\ auth_user = {[username |-> u, email |-> email(u), groups |-> groups(u)] :
                       u \in Users}
    /\ now = 1
    /\ accept = [p \in Workers |-> IdleJob]
    /\ \E n \in 1..MaxPlanned :
          /\ \E s \in PlanRows, more \in [2..n -> PlanMore] :
                schedules = [k \in 1..n |-> IF k = 1 THEN s ELSE more[k]]
          /\ next_schedule = n + 1
    /\ today \in PlanToday
    /\ \E st \in PlanStatuses :
          assets = 1 :> AssetRow("boiler", "other", st, NoRef, "0A1B2C")
    /\ next_asset = 2
    /\ locations = <<>>
    /\ next_location = 1
    /\ core_job = [p \in Workers |-> IdleJob]
    /\ ctx = NoCtx

NextPlan ==
    \/ \E u \in PlanUsers, month \in PlanMonths : PlannerMonth(u, month)
    \/ \E u \in PlanUsers, week_num \in PlanWeeks : PlannerWeek(u, week_num)
    \/ \E u \in PlanUsers : PlannerList(u)

SpecPlan == InitPlan /\ [][NextPlan]_vars

\* ----------------------------------------------------------------- C11
\* the dates a rendered month or week page shows schedule k on
ShownDates(k) ==
    IF ctx.view = "month"
    THEN {ctx.first + day - 1 : day \in {key \in DOMAIN ctx.maintenance :
                                            k \in ctx.maintenance[key]}}
    ELSE {d \in DOMAIN ctx.maintenance : k \in ctx.maintenance[d]}

\* C11: in the month and the week view, a schedule with interval I >= 1 and
\* next due date N is shown on exactly the dates d of the window [W0, W1]
\* with d >= N and (d - N) mod I = 0; when N < W0 the first date shown lies
\* less than I days after W0; schedules the filter leaves out are not shown.
C11_ProjectionExact ==
    (resp.op \in {"planner_month", "planner_week"} /\ resp.code = "200") =>
        \A k \in DOMAIN schedules :
            LET I == schedules[k].interval_days
                N == next_due_date(schedules[k])
            IN  /\ k \notin PlannedSchedules => ShownDates(k) = {}
                /\ (k \in PlannedSchedules /\ I >= 1) =>
                     /\ ShownDates(k) =
                          {d \in ctx.first..ctx.last :
                              d >= N /\ (d - N) % I = 0}
                     /\ (N < ctx.first /\ ShownDates(k) # {}) =>
                          \E d \in ShownDates(k) :
                              /\ d < ctx.first + I
                              /\ \A e \in ShownDates(k) : d <= e

\* a month page with a schedule due before the window, shown on more than
\* one date, the first of them after the first day of the month
C11_Witness ==
    /\ resp.op = "planner_month"
    /\ resp.code = "200"
    /\ \E k \in PlannedSchedules :
          /\ schedules[k].interval_days = 7
          /\ next_due_date(schedules[k]) < ctx.first
          /\ ctx.first \notin ShownDates(k)
          /\ \E d \in ShownDates(k) : d + 7 \in ShownDates(k)

\* ----------------------------------------------------------------- C12
\* the schedules of a rendered month or week page with interval 30 whose
\* next due date lies 10 days before the first day of the window
DueTenBefore ==
    IF resp.op \in {"planner_month", "planner_week"} /\ resp.code = "200"
    THEN {k \in PlannedSchedules :
            /\ schedules[k].interval_days = 30
            /\ next_due_date(schedules[k]) = ctx.first - 10}
    ELSE {}

\* C12 (amended): for a schedule with interval 30 whose next due date lies
\* 10 days before the window start, the first projected occurrence is the
\* due date plus 30 days, which is 20 days after the window start; it is
\* shown when the window reaches that far and nothing is shown before it.
C12_FirstAfterTwenty ==
    \A k \in DueTenBefore :
        /\ \A d \in ShownDates(k) : d >= ctx.first + 20
        /\ ctx.first + 20 <= ctx.last => ctx.first + 20 \in ShownDates(k)
        /\ ctx.first + 20 > ctx.last => ShownDates(k) = {}

\* C12 (as stated): for a schedule with interval 30 whose next due date lies
\* 10 days before the window start, the first projected occurrence lands at
\* most 10 days after the window start.
C12_FirstWithinTen ==
    \A k \in DueTenBefore :
        ShownDates(k) # {} => \E d \in ShownDates(k) : d <= ctx.first + 10

\* the page of March with a schedule last performed on day 20: due on day
\* 50, ten days before 1 March, and shown on day 80
C12_Witness ==
    /\ resp.op = "planner_month"
    /\ \E k \in DueTenBefore :
          /\ schedules[k].last_performed = 20
          /\ ctx.first = 60
          /\ ShownDates(k) = {80}

\* ----------------------------------------------------------------- C13
\* the positions of the rendered list that belong to schedule k
EntriesOf(k) ==
    {i \in DOMAIN ctx.upcoming_maintenance :
        ctx.upcoming_maintenance[i].schedule = k}

\* every occurrence of schedule k between today and today + 60 days
DueInList(k) ==
    {d \in today..(today + ListDays) :
        /\ d >= next_due_date(schedules[k])
        /\ (d - next_due_date(schedules[k])) % schedules[k].interval_days = 0}

\* C13: in the planner list view every schedule contributes at most 10
\* occurrences, all dated within [today, today + 60 days]; for an interval
\* of at least one day they are distinct and the earliest occurrences of
\* the schedule in that window; the list is sorted by date ascending.
C13_ListCappedSorted ==
    (resp.op = "planner_list" /\ resp.code = "200") =>
        LET list == ctx.upcoming_maintenance
        IN  /\ \A i, j \in DOMAIN list : i < j => list[i].date <= list[j].date
            /\ \A i \in DOMAIN list : list[i].schedule \in PlannedSchedules
            /\ \A k \in DOMAIN schedules :
                 LET shown == {list[i].date : i \in EntriesOf(k)}
                 IN  /\ Cardinality(EntriesOf(k)) <= 10
                     /\ \A d \in shown : today <= d /\ d <= today + 60
                     /\ (k \in PlannedSchedules
                            /\ schedules[k].interval_days >= 1) =>
                          /\ Cardinality(shown) = Cardinality(EntriesOf(k))
                          /\ shown \subseteq DueInList(k)
                          /\ \A d \in shown, e \in DueInList(k) \ shown : d < e
                          /\ Cardinality(shown) < 10 => shown = DueInList(k)

\* a list of two schedules: one cut off at 10 entries with more of its
\* occurrences left in the window, the entries of the other between them
C13_Witness ==
    /\ resp.op = "planner_list"
    /\ resp.code = "200"
    /\ \E a, b \in PlannedSchedules :
          /\ a # b
          /\ schedules[a].interval_days >= 1
          /\ Cardinality(EntriesOf(a)) = 10
          /\ Cardinality(DueInList(a)) > 10
          /\ \E i \in EntriesOf(a), j \in EntriesOf(b), k \in EntriesOf(a) :
                i < j /\ j < k
          /\ \E i \in EntriesOf(b), j \in EntriesOf(a) :
                /\ i < j
                /\ ctx.upcoming_maintenance[i].date
                      < ctx.upcoming_maintenance[j].date
                /\ Before(a, b)

\* ----------------------------------------------------------------- C14
\* C14: every maintenance schedule stored through the schedule forms has
\* interval_days >= 1; an interval of 0 is rejected before it is stored.
C14_IntervalAtLeastOne ==
    \A k \in DOMAIN schedules : schedules[k].interval_days >= 1

\* ------------------------------------------------------------- mentions
\* the notes posted: a user named twice, an unknown name beside a known one
\* with a full stop, an address, a longer word, no @, a bare @, no text
MentionNotes ==
    {[text |-> <<"@", "s", "a", "m", " ", "@", "s", "a", "m">>, minutes |-> 0],
     [text |-> <<"@", "g", "h", "o", "s", "t", " ", "@", "f", "a", "y", ".">>, minutes |-> 0],
     [text |-> <<"u", "n", "a", "@", "f", "a", "y">>, minutes |-> 0],
     [text |-> <<"@", "s", "a", "m", "_">>, minutes |-> 0],
     [text |-> <<"s", "a", "m">>, minutes |-> 0],
     [text |-> <<"@", " ", "@", "u", "n", "a">>, minutes |-> 0],
     [text |-> <<>>, minutes |-> 0]}
MentionCallers == {"sam", "vic"}

NextMention ==
    \/ \E ok \in BOOLEAN : CreateRequest("una", "una@fmx.nl", <<>>, ok)
    \/ \E u \in MentionCallers, pk \in Pks, note \in MentionNotes :
          add_worklog(u, pk, note, TRUE)

SpecMention == Init /\ [][NextMention]_vars

\* ----------------------------------------------------------------- C15
\* the username of m stands in the text right after an @ and ends there
Named(m, text) ==
    \E i \in DOMAIN text :
        /\ text[i] = "@"
        /\ i + Len(Spell(m)) <= Len(text)
        /\ \A j \in 1..Len(Spell(m)) : text[i + j] = Spell(m)[j]
        /\ \/ i + Len(Spell(m)) = Len(text)
           \/ text[i + Len(Spell(m)) + 1] \notin WordChars

\* C15: when a work-log note is added, every existing user whose username
\* occurs as an @token in the note gets exactly one notification of type
\* 'mention' linked to the request, however often the user is named; tokens
\* that match no username create no notification and no error; the work-log
\* entry is saved in every case.
C15_OneMentionPerUser ==
    [][\A u \in MentionCallers, pk \in Pks, note \in MentionNotes :
          (/\ add_worklog(u, pk, note, TRUE)
           /\ IsFacilities(u) \/ IsOwner(u, requests[pk])
           /\ WorkLogFormValid(note)) =>
             LET old == Len(notifications)
                 new == SubSeq(notifications', old + 1, Len(notifications'))
             IN  /\ Len(work_logs') = Len(work_logs) + 1
                 /\ SubSeq(work_logs', 1, Len(work_logs)) = work_logs
                 /\ work_logs'[Len(work_logs')].repair_request = pk
                 /\ work_logs'[Len(work_logs')].author = u
                 /\ resp' = Response("add_worklog", "redirect_detail", {})
                 /\ SubSeq(notifications', 1, old) = notifications
                 /\ \A i \in DOMAIN new :
                       /\ new[i].notification_type = "mention"
                       /\ new[i].repair_request = pk
                       /\ new[i].user \in Users
                 /\ \A m \in Users :
                       Cardinality({i \in DOMAIN new : new[i].user = m})
                           = IF Named(m, note.text) THEN 1 ELSE 0
      ]_vars

\* after the note naming sam twice and the note naming ghost and fay: one
\* notification for sam, one for fay, none else, both notes saved
C15_Witness ==
    /\ Len(work_logs) = 3
    /\ work_logs[2].entry_type = "note"
    /\ work_logs[3].entry_type = "note"
    /\ Len(notifications) = 2
    /\ notifications[1].user = "sam"
    /\ notifications[2].user = "fay"
    /\ notifications[1].repair_request = work_logs[2].repair_request
    /\ notifications[2].repair_request = work_logs[3].repair_request

\* -------------------------------------------------------- cost overview
MaxCosted == 2
\* the years of the model calendar have 365 days
YearDays == 365

\* date(year, month, 1) and the last day of that month, years counted from 1
first_of(year, month) == YearDays * (year - 1) + DaysBefore(month) + 1
last_of(year, month) == YearDays * (year - 1) + DaysBefore(month) + MonthLen[month]

\* (mutant) the requests of a month taken by their due date
CreatedInByDue(year, month) ==
    {k \in ActiveRequests :
        /\ requests[k].due_date >= first_of(year, month)
        /\ requests[k].due_date <= last_of(year, month)}

\* RepairRequest.objects.filter(created_at__date__gte=first_day,
\* created_at__date__lte=last_day)
CreatedIn(year, month) ==
    {k \in ActiveRequests :
        /\ requests[k].created_at >= first_of(year, month)
        /\ requests[k].created_at <= last_of(year, month)}

\* Sum(field) over a queryset: null when no row has a value
RECURSIVE Sum(_, _)
Sum(ks, field) ==
    IF ks = {} THEN <<>>
    ELSE LET k == CHOOSE i \in ks : TRUE
             rest == Sum(ks \ {k}, field)
         IN  IF requests[k][field] = <<>> THEN rest
             ELSE IF rest = <<>> THEN requests[k][field]
             ELSE <<requests[k][field][1] + rest[1]>>

\* "agg[...] or Decimal('0')"
OrZero(x) == IF x = <<>> THEN 0 ELSE IF x[1] = 0 THEN 0 ELSE x[1]

\* one entry of months_data
MonthData(year, month) ==
    LET estimated == OrZero(Sum(CreatedIn(year, month),
                                "estimated_cost"))
        actual == OrZero(Sum(CreatedIn(year, month), "actual_cost"))
    IN  [month |-> month, estimated |-> estimated, actual |-> actual,
         difference |-> actual - estimated,
         count |-> Cardinality(CreatedIn(year, month))]

\* "total_estimated += estimated", "total_actual += actual" over the months
RECURSIVE Accumulate(_, _, _)
Accumulate(months_data, n, field) ==
    IF n = 0 THEN 0
    ELSE Accumulate(months_data, n - 1, field) + months_data[n][field]

\* CostOverviewView.get_context_data
CostOverview(u, year) ==
    /\ IF ~is_authenticated(u)
       THEN /\ resp' = Response("cost_overview", "redirect_login", {})
            /\ UNCHANGED ctx
       ELSE IF ~PlannerTest(u)
       THEN /\ resp' = Response("cost_overview", "403", {})
            /\ UNCHANGED ctx
       ELSE LET months_data == [month \in 1..12 |-> MonthData(year, month)]
                total_estimated == Accumulate(months_data, 12,
                                              "estimated")
                total_actual == Accumulate(months_data, 12, "actual")
            IN  /\ resp' = Response("cost_overview", "200", {})
                /\ ctx' = [NoCtx EXCEPT
                             !.view = "costs",
                             !.year = year,
                             !.months_data = months_data,
                             !.total_estimated = total_estimated,
                             !.total_actual = total_actual,
                             !.total_difference = total_actual - total_estimated]
    /\ UNCHANGED <<requests, next_id, work_logs, attachments, notifications,
                   outbox, clock, job, invVars, schedVars, assets, next_asset,
                   locations, next_location, core_job>>

\* the requests the overview is asked about: created in January or February
\* of year 1 or in January of year 2, with or without costs and due date
CostRows ==
    {[NewRequest("una", "") EXCEPT !.created_at = c, !.due_date = d,
                                   !.estimated_cost = e, !.actual_cost = a,
                                   !.is_deleted = del] :
        c \in {15, 40, 380}, d \in {NoDate, 45}, e \in {<<>>, <<5>>},
        a \in {<<>>, <<7>>}, del \in BOOLEAN}
CostMore ==
    {[NewRequest("una", "") EXCEPT !.created_at = 15, !.due_date = d,
                                   !.estimated_cost = e, !.actual_cost = a] :
        d \in {NoDate, 45}, e \in {<<0>>, <<3>>}, a \in {<<>>, <<2>>}}
CostYears == {1, 2, 3}
CostUsers == {"sam", "una"}

InitCost ==
    /\ today = 381
    /\ \E n \in 0..MaxCosted :
          /\ \E more \in [2..n -> CostMore] :
                \/ n = 0 /\ requests = <<>>
                \/ /\ n > 0
                   /\ \E r \in CostRows :
                         requests = [k \in 1..n |-> IF k = 1 THEN r ELSE more[k]]
          /\ next_id = n + 1
    /\ work_logs = <<>>
    /\ attachments = <<>>
    /\ notifications = <<>>
    /\ outbox = <<>>
    /\ clock = 1
    /\ job = [p \in Workers |-> IdleJob]
    /\ resp = NoResp
    /\ invitations = <<>>
    /\ auth_user = {[username |-> u, email |-> email(u), groups |-> groups(u)] :
                       u \in Users}
    /\ now = 1
    /\ accept = [p \in Workers |-> IdleJob]
    /\ schedules = <<>>
    /\ next_schedule = 1
    /\ assets = <<>>
    /\ next_asset = 1
    /\ locations = <<>>
    /\ next_location = 1
    /\ core_job = [p \in Workers |-> IdleJob]
    /\ ctx = NoCtx

NextCost == \E u \in CostUsers, year \in CostYears : CostOverview(u, year)

SpecCost == InitCost /\ [][NextCost]_vars

\* ----------------------------------------------------------------- C16
\* the number of the month a date lies in, and of its year
MonthOf(d) ==
    CHOOSE m \in 1..12 :
        /\ DaysBefore(m) < ((d - 1) % 365) + 1
        /\ ((d - 1) % 365) + 1 <= DaysBefore(m) + MonthLen[m]
YearOf(d) == ((d - 1) \div 365) + 1

\* the requests a bucket has to count: not deleted, created in that month
BucketOf(year, month) ==
    {k \in DOMAIN requests :
        /\ ~requests[k].is_deleted
        /\ YearOf(requests[k].created_at) = year
        /\ MonthOf(requests[k].created_at) = month}

\* the sum of the costs that are set, request after request
RECURSIVE CostOf(_, _, _)
CostOf(ks, n, field) ==
    IF n = 0 THEN 0
    ELSE CostOf(ks, n - 1, field)
         + (IF n \in ks /\ requests[n][field] # <<>>
            THEN requests[n][field][1] ELSE 0)

\* C16: the cost overview of a year has exactly twelve monthly buckets; each
\* request that is not deleted is counted in exactly the bucket of its
\* creation month, never by its due date; each bucket's estimated and actual
\* are the sums of the costs that are set (0 when there are none) and its
\* difference is actual - estimated; the three totals are the sums over the
\* twelve buckets; for a year without requests everything is zero.
C16_CostBuckets ==
    (resp.op = "cost_overview" /\ resp.code = "200") =>
        LET data == ctx.months_data
            n == Cardinality(DOMAIN requests)
        IN  /\ DOMAIN data = 1..12
            /\ \A m \in 1..12 :
                  /\ data[m].month = m
                  /\ data[m].count = Cardinality(BucketOf(ctx.year, m))
                  /\ data[m].estimated =
                        CostOf(BucketOf(ctx.year, m), n,
                               "estimated_cost")
                  /\ data[m].actual =
                        CostOf(BucketOf(ctx.year, m), n, "actual_cost")
                  /\ data[m].difference = data[m].actual - data[m].estimated
            /\ \A k \in DOMAIN requests :
                  Cardinality({m \in 1..12 : k \in BucketOf(ctx.year, m)})
                      = IF ~requests[k].is_deleted
                           /\ YearOf(requests[k].created_at) = ctx.year
                        THEN 1 ELSE 0
            /\ ctx.total_estimated =
                  CostOf({k \in DOMAIN requests :
                            \E m \in 1..12 : k \in BucketOf(ctx.year, m)}, n,
                         "estimated_cost")
            /\ ctx.total_actual =
                  CostOf({k \in DOMAIN requests :
                            \E m \in 1..12 : k \in BucketOf(ctx.year, m)}, n,
                         "actual_cost")
            /\ ctx.total_difference = ctx.total_actual - ctx.total_estimated
            /\ (\A k \in DOMAIN requests :
                    YearOf(requests[k].created_at) # ctx.year) =>
                  /\ \A m \in 1..12 :
                        /\ data[m].count = 0
                        /\ data[m].estimated = 0
                        /\ data[m].actual = 0
                        /\ data[m].difference = 0
                  /\ ctx.total_estimated = 0
                  /\ ctx.total_actual = 0
                  /\ ctx.total_difference = 0

\* the overview of year 1 with two requests created in January, one of them
\* due in February and with costs: both in the bucket of January, the sums
\* leaving out the cost that is not set, nothing in February
C16_Witness ==
    /\ resp.op = "cost_overview"
    /\ resp.code = "200"
    /\ ctx.year = 1
    /\ \E a, b \in ActiveRequests :
          /\ a # b
          /\ requests[a].due_date = 45
          /\ requests[a].estimated_cost = <<5>>
          /\ requests[a].actual_cost = <<>>
          /\ requests[b].estimated_cost = <<3>>
          /\ requests[b].actual_cost = <<2>>
    /\ ctx.months_data[1].count = 2
    /\ ctx.months_data[1].estimated = 8
    /\ ctx.months_data[1].actual = 2
    /\ ctx.months_data[1].difference = -6
    /\ ctx.months_data[2].count = 0
    /\ ctx.total_difference = -6

\* ------------------------------------------------- the asset views together
AssetAdmins == {"sam", "una"}

NextAsset ==
    \/ \E p \in Workers, u \in AssetAdmins, category \in {"hvac", "other"},
          uid \in Uids :
          AssetSaveBegin(p, u, "boiler", category, "operational", NoRef, uid)
    \/ \E p \in Workers : AssetSaveInsert(p)
    \/ \E name \in {"lift", ""}, uid \in Uids :
          import_assets(<<[name |-> name, category |-> "weird",
                           location |-> ""]>>, <<uid>>, FALSE)
    \/ \E pk \in AssetPks, category \in {"hvac", "nothing"} :
          AssetUpdate("sam", pk, "boiler", category, "attention", NoRef)
    \/ \E pk \in AssetPks : AssetDelete("sam", pk)

SpecAsset == Init /\ [][NextAsset]_vars

\* assets, the requests that refer to them, and the delete view
NextAssetRef ==
    \/ \E uid \in Uids :
          AssetCreate("sam", "boiler", "other", "operational", NoRef, uid)
    \/ location_create_ajax("una", "hall", NoRef)
    \/ \E loc \in LocationPks, ast \in AssetPks \cup {NoRef} :
          CreateRequestAt("una", "una@fmx.nl", loc, ast)
    \/ \E u \in AssetAdmins, pk \in AssetPks : AssetDelete(u, pk)

SpecAssetRef == Init /\ [][NextAssetRef]_vars

\* ----------------------------------------------------------------- C17
\* C17: after any sequence of asset creations, concurrent ones of the same
\* category included, no two stored assets have the same asset_tag; an asset
\* saved without a tag gets its category's prefix (OBJ when the category has
\* none), a dash and a suffix; an insert whose generated tag is already
\* stored is rejected and leaves the stored assets as they are.
C17_TagsUnique ==
    /\ [](\A a, b \in DOMAIN assets :
             a # b => assets[a].asset_tag # assets[b].asset_tag)
    /\ [][/\ \A k \in DOMAIN assets' \ DOMAIN assets :
                /\ assets'[k].asset_tag[1] = prefix_map(assets'[k].category)
                /\ assets'[k].category \notin AssetCategory =>
                      assets'[k].asset_tag[1] = "OBJ"
                /\ assets'[k].asset_tag[2] = "-"
                /\ assets'[k].asset_tag[3] \in Uids
                /\ Len(assets'[k].asset_tag) = 3
                /\ \A j \in DOMAIN assets : assets'[j] = assets[j]
          /\ \A p \in Workers :
                (/\ AssetSaveInsert(p)
                 /\ \E k \in DOMAIN assets :
                       assets[k].asset_tag = core_job[p].row.asset_tag) =>
                    /\ assets' = assets
                    /\ resp' = Response("asset_create", "500", {})
       ]_vars

\* two creations of the same category ran together and drew the same
\* suffix: one row stored, the other insert answered with an error
C17_Witness ==
    /\ resp = Response("asset_create", "500", {})
    /\ \A p \in Workers : core_job[p].pc = "idle"
    /\ DOMAIN assets = {1}
    /\ assets[1].asset_tag = <<"HVAC", "-", "0A1B2C">>
    /\ next_asset = 2

\* ----------------------------------------------------------------- C20
\* C20: an asset that a repair request refers to is never deleted through
\* the application: the delete is refused, the asset stays and the requests
\* keep their reference to it.
C20_ReferencedAssetKept ==
    [][\A a \in DOMAIN assets :
          (\E r \in DOMAIN requests : requests[r].asset = a) =>
              /\ a \in DOMAIN assets'
              /\ \A r \in DOMAIN requests :
                    requests[r].asset = a => requests'[r].asset = a
      ]_vars

\* ---------------------------------------------- the location views together
\* the files given to import_locations: two locations naming each other as
\* parent, a location naming itself, a record without name
ImportFiles ==
    {<<[name |-> "hall", parent |-> "attic"],
       [name |-> "attic", parent |-> "hall"]>>,
     <<[name |-> "hall", parent |-> "hall"]>>,
     <<[name |-> "", parent |-> ""]>>}

NextLoc ==
    \/ \E u \in AssetAdmins, name \in LocationNames,
          parent \in LocationPks \cup {NoRef} : LocationCreate(u, name, parent)
    \/ \E pk \in LocationPks, parent \in LocationPks \cup {NoRef} :
          LocationUpdate("sam", pk, "hall", parent)
    \/ \E name \in {"attic", ""}, parent_id \in LocationPks \cup {NoRef} :
          location_create_ajax("una", name, parent_id)
    \/ \E data \in ImportFiles : import_locations(data, FALSE)
    \/ \E p \in Workers, u \in AssetAdmins, pk \in LocationPks :
          LocationDeleteCheck(p, u, pk)
    \/ \E p \in Workers : LocationDeleteRun(p)
    \/ \E loc \in LocationPks \cup {NoRef} :
          AssetCreate("sam", "boiler", "other", "operational", loc, "0A1B2C")
    \/ \E loc \in LocationPks : CreateRequestAt("una", "una@fmx.nl", loc, NoRef)

SpecLoc == Init /\ [][NextLoc]_vars

\* ----------------------------------------------------------------- C18
\* C18: a location that has an asset, a repair request or a child location
\* is not deleted, also when the dependent is attached while the delete
\* request is under way: the row stays and the references to it stay.
C18_DependentsBlockDelete ==
    [][\A pk \in DOMAIN locations :
          (HasAssets(pk) \/ HasRequests(pk) \/ HasChildren(pk)) =>
              /\ pk \in DOMAIN locations'
              /\ \A k \in DOMAIN assets :
                    assets[k].location = pk => assets'[k].location = pk
              /\ \A k \in DOMAIN requests :
                    requests[k].location = pk => requests'[k].location = pk
      ]_vars

\* ----------------------------------------------------------------- C19
\* C19: after any sequence of location creations and updates the parent
\* relation is a forest: no location is its own parent or its own ancestor.
C19_ParentForest ==
    \A k \in DOMAIN locations :
        k \notin Above(locations, k, Cardinality(DOMAIN locations))

\* ----------------------------------------------------- the work log kept
\* Every handler of a request called by staff and by the requester, the
\* statements of update_request interleaving with the other handlers.
LogInputs == {[status |-> "in_progress", assigned_to |-> NULL]}
LogNotes == {[text |-> <<"o", "k">>, minutes |-> 30]}
LogFiles == {[ext |-> "jpg", size |-> 2048]}

NextLog ==
    \/ CreateRequest("una", "una@fmx.nl", <<>>, TRUE)
    \/ \E pk \in Pks, note \in LogNotes : add_worklog("una", pk, note, TRUE)
    \/ \E pk \in Pks, f \in LogFiles : add_attachment("una", pk, f)
    \/ \E pk \in Pks : update_description("sam", pk, "d1")
    \/ \E pk \in Pks : update_resolution("sam", pk, "d1")
    \/ \E pk \in Pks : RequestDelete("sam", pk)
    \/ \E pk \in Pks, data \in LogInputs : UpdateLoad(1, "sam", pk, data)
    \/ UpdateSave(1)
    \/ UpdateLog(1)

SpecLog == Init /\ [][NextLog]_vars

\* ------------------------------------------------------------------ C21
\* the work-log entries of request pk among rows, oldest first
EntriesIn(rows, pk) == SelectSeq(rows, LAMBDA w : w.repair_request = pk)

\* C21: no handler of the request flow changes or removes a work-log entry of
\* a request that is still stored after it: the entries such a request had
\* before a step are, unchanged and in the same order, the first entries it
\* has after the step.
C21_WorkLogAppendOnly ==
    [][\A pk \in DOMAIN requests \cap DOMAIN requests' :
          /\ Len(EntriesIn(work_logs', pk)) >= Len(EntriesIn(work_logs, pk))
          /\ SubSeq(EntriesIn(work_logs', pk), 1, Len(EntriesIn(work_logs, pk)))
                = EntriesIn(work_logs, pk)
      ]_vars

\* a request with a note and a status entry next to its first entry is kept
\* whole while the other request has been deleted together with its entries
C21_Witness ==
    /\ next_id = 3
    /\ DOMAIN requests = {1}
    /\ Len(EntriesIn(work_logs, 1)) = 3
    /\ Len(work_logs) = 3
    /\ \E i \in 1..3 : work_logs[i].entry_type = "status_change"
    /\ \E i \in 1..3 : work_logs[i].entry_type = "time_spent"

\* ------------------------------------------------------- the bulk import
\* The four loaders of import_data run one after the other, each with and
\* without --dry-run, on a store that the web forms fill as well.
LocationFiles ==
    {<<[name |-> "", parent |-> "hall"], [name |-> "attic", parent |-> "hall"],
       [name |-> "hall", parent |-> ""]>>,
     <<[name |-> "hall", parent |-> "attic"]>>}
AssetFiles ==
    {<<[name |-> "", category |-> "hvac", location |-> "hall"],
       [name |-> "boiler", category |-> "hvac", location |-> "cellar"]>>,
     <<[name |-> "boiler", category |-> "hvac", location |-> "hall"],
       [name |-> "lift", category |-> "hvac", location |-> ""]>>}
UidDraws == {<<a, a>> : a \in Uids}
RequestFiles ==
    {<<[title |-> "lamp", location |-> "cellar", asset |-> "ghost"],
       [title |-> "", location |-> "hall", asset |-> ""],
       [title |-> "door", location |-> "hall", asset |-> "boiler"]>>,
     <<[title |-> "leak", location |-> "", asset |-> ""]>>}
AccountFiles ==
    {<<[username |-> "sam", email |-> "new@fmx.nl", password |-> "pw2",
        is_staff |-> FALSE],
       [username |-> "", email |-> "nn@fmx.nl", password |-> "pw3",
        is_staff |-> FALSE],
       [username |-> "kim", email |-> "kim@fmx.nl", password |-> "",
        is_staff |-> TRUE],
       [username |-> "kit", email |-> "kim@fmx.nl", password |-> "pw4",
        is_staff |-> FALSE]>>,
     <<[username |-> "una", email |-> "", password |-> "pw5",
        is_staff |-> FALSE],
       [username |-> "una", email |-> "una@fmx.nl", password |-> "pw6",
        is_staff |-> FALSE]>>}

\* the accounts stored before the import: one staff account
InitImport ==
    /\ requests = <<>>
    /\ next_id = 1
    /\ work_logs = <<>>
    /\ attachments = <<>>
    /\ notifications = <<>>
    /\ outbox = <<>>
    /\ clock = 1
    /\ job = [p \in Workers |-> IdleJob]
    /\ resp = NoResp
    /\ invitations = <<>>
    /\ auth_user = {[username |-> "sam", email |-> "sam@fmx.nl", groups |-> {},
                     password |-> "pw1", is_staff |-> TRUE,
                     is_superuser |-> FALSE, must_change_password |-> FALSE]}
    /\ now = 1
    /\ accept = [p \in Workers |-> IdleJob]
    /\ schedules = <<>>
    /\ next_schedule = 1
    /\ today = 1
    /\ assets = <<>>
    /\ next_asset = 1
    /\ locations = <<>>
    /\ next_location = 1
    /\ core_job = [p \in Workers |-> IdleJob]
    /\ ctx = NoCtx

NextImport ==
    \/ \E data \in LocationFiles, dry_run \in BOOLEAN :
          import_locations(data, dry_run)
    \/ \E data \in AssetFiles, uids \in UidDraws, dry_run \in BOOLEAN :
          import_assets(data, uids, dry_run)
    \/ \E data \in RequestFiles, dry_run \in BOOLEAN :
          import_requests(data, dry_run)
    \/ \E data \in AccountFiles, dry_run \in BOOLEAN :
          import_accounts(data, dry_run)
    \/ location_create_ajax("sam", "hall", NoRef)
    \/ CreateRequest(ANON, "", <<>>, TRUE)

SpecImport == InitImport /\ [][NextImport]_vars

LocationsNamed(name) == {k \in DOMAIN locations : locations[k].name = name}
AssetsNamed(name) == {k \in DOMAIN assets : assets[k].name = name}
RequestsTitled(title) == {k \in DOMAIN requests : requests[k].title = title}

\* C23: an import of requests or assets is not ended by an item that names a
\* location or an asset that is not stored, nor by an item without title or
\* name: it ends in an error only when a title or a name of the file is
\* stored more than once or a generated tag is taken.  When it runs to its
\* end, every item with a title or name is stored, a row it created refers to
\* the named location and asset where they are stored and has the reference
\* empty where they are not, and no row is created for an item without title
\* or name.  The imports of locations and accounts likewise store every item
\* that has its name, or its username and e-mail, and leave out the others.
C23_MissingReferenceNull ==
    [][/\ \A data \in RequestFiles :
            (resp'.op = "import_requests" /\ import_requests(data, FALSE)) =>
               /\ resp'.code = "error" =>
                     \E i \in DOMAIN data :
                        Cardinality(RequestsTitled(data[i].title)) > 1
               /\ resp'.code = "complete" =>
                     /\ \A i \in DOMAIN data :
                           data[i].title # "" =>
                              \E k \in DOMAIN requests' :
                                 requests'[k].title = data[i].title
                     /\ \A k \in DOMAIN requests' \ DOMAIN requests :
                           \E i \in DOMAIN data :
                              /\ data[i].title # ""
                              /\ requests'[k].title = data[i].title
                              /\ IF LocationsNamed(data[i].location) = {}
                                 THEN requests'[k].location = NoRef
                                 ELSE requests'[k].location
                                         \in LocationsNamed(data[i].location)
                              /\ IF AssetsNamed(data[i].asset) = {}
                                 THEN requests'[k].asset = NoRef
                                 ELSE requests'[k].asset
                                         \in AssetsNamed(data[i].asset)
       /\ \A data \in AssetFiles, uids \in UidDraws :
            (resp'.op = "import_assets" /\ import_assets(data, uids, FALSE)) =>
               /\ resp'.code = "error" =>
                     \E i \in DOMAIN data :
                        \/ Cardinality(AssetsNamed(data[i].name)) > 1
                        \/ \E j \in DOMAIN uids :
                              TagTaken(GeneratedTag(data[i].category, uids[j]))
                        \/ \E j \in DOMAIN data :
                              /\ j # i
                              /\ GeneratedTag(data[i].category, uids[i])
                                    = GeneratedTag(data[j].category, uids[j])
               /\ resp'.code = "complete" =>
                     /\ \A i \in DOMAIN data :
                           data[i].name # "" =>
                              \E k \in DOMAIN assets' :
                                 assets'[k].name = data[i].name
                     /\ \A k \in DOMAIN assets' \ DOMAIN assets :
                           \E i \in DOMAIN data :
                              /\ data[i].name # ""
                              /\ assets'[k].name = data[i].name
                              /\ IF LocationsNamed(data[i].location) = {}
                                 THEN assets'[k].location = NoRef
                                 ELSE assets'[k].location
                                         \in LocationsNamed(data[i].location)
       /\ \A data \in LocationFiles :
            (/\ resp'.op = "import_locations"
             /\ import_locations(data, FALSE)
             /\ resp'.code = "complete") =>
               /\ \A i \in DOMAIN data :
                     data[i].name # "" =>
                        \E k \in DOMAIN locations' :
                           locations'[k].name = data[i].name
               /\ \A k \in DOMAIN locations' \ DOMAIN locations :
                     locations'[k].name # ""
       /\ \A data \in AccountFiles :
            (resp'.op = "import_accounts" /\ import_accounts(data, FALSE)) =>
               /\ \A i \in DOMAIN data :
                     (data[i].username # "" /\ data[i].email # "") =>
                        \E a \in auth_user' :
                           \/ a.username = data[i].username
                           \/ a.email = data[i].email
               /\ \A a \in auth_user' \ auth_user :
                     a.username # "" /\ a.email # ""
      ]_vars

\* one run of the requests file stored 'lamp', whose location and asset are
\* not stored, with both references empty, left out the item without title
\* and stored 'door' at the location it names
C23_Witness ==
    /\ resp = Response("import_requests", "complete", {1, 2})
    /\ requests[1].title = "lamp"
    /\ requests[1].location = NoRef
    /\ requests[1].asset = NoRef
    /\ requests[2].title = "door"
    /\ requests[2].location # NoRef
    /\ requests[2].asset # NoRef

\* ------------------------------------------------------------------ C24
\* C24: no stored attachment holds a file of more than 10 MB or a file whose
\* extension is not one of jpg, jpeg, png, gif, webp and pdf, whichever way
\* it was uploaded (add_attachment, the photos of the create form).
C24_NoRejectedFileStored ==
    \A i \in DOMAIN attachments :
        /\ attachments[i].file.size <= 10 * 1024 * 1024
        /\ attachments[i].file.ext \in AllowedTypes

\* ------------------------------------------------------------------ C25
\* C25: once the update_request calls of the staff users have ended, in
\* whatever way their statements interleaved, the status entries of every
\* request form a chain in the order they were written: each names as old
\* status the new status of the entry before it ('new' for the first), and
\* the new status of the last entry is the stored status of the request.
C25_StatusChainInterleaved ==
    Quiet =>
        \A pk \in DOMAIN requests :
            LET S == StatusEntries(pk) IN
            /\ \A i \in 1..Len(S) :
                  S[i].note.a = IF i = 1 THEN "new" ELSE S[i-1].note.b
            /\ S # <<>> => requests[pk].status = S[Len(S)].note.b

\* ------------------------------------------------------------------ C26
\* C26: the month, week and list views of the planner come to an end for
\* every stored schedule and every window: the skip-forward does not fail
\* and no enumeration loop runs without end.
C26_PlannerEnds ==
    resp.op \in {"planner_month", "planner_week", "planner_list"} =>
        resp.code \notin {"500", "timeout"}

\* ----------------------------------------------- the entries of a triage
\* update_request called by staff, one call after the other, with every
\* assignable user among the assignees.
AssignInputs == [status : {"new", "triaged"}, assigned_to : {NULL, "sam", "vic"}]

NextAssign ==
    \/ Quiet /\ next_id <= MaxTracked /\ CreateRequest(ANON, "", <<>>, TRUE)
    \/ \E pk \in Pks, data \in AssignInputs : Quiet /\ UpdateLoad(1, "sam", pk, data)
    \/ UpdateSave(1)
    \/ UpdateLog(1)

SpecAssign == Init /\ [][NextAssign]_vars

\* ------------------------------------------------------------------ C27
\* C27: every entry update_request writes for a status change has the entry
\* type 'status_change', and every entry it writes for an assignment or for
\* the removal of one has the entry type 'assignment', whoever the assignee.
C27_EntryTypeByChange ==
    \A i \in DOMAIN work_logs :
        /\ work_logs[i].note.kind = "status" =>
              work_logs[i].entry_type = "status_change"
        /\ work_logs[i].note.kind \in {"assigned", "unassigned"} =>
              work_logs[i].entry_type = "assignment"

\* ------------------------------------------------------------------ C28
\* C28: the status of an invitation only moves from pending to accepted,
\* expired or cancelled and never leaves those three; once an invitation is
\* cancelled no acceptance call sets it to accepted or creates an account
\* with its address, also when the call's validity test ran earlier.
C28_StatusOneWay ==
    [][\A t \in DOMAIN invitations :
          /\ invitations'[t].status # invitations[t].status =>
                /\ invitations[t].status = "pending"
                /\ invitations'[t].status \in {"accepted", "expired", "cancelled"}
          /\ invitations[t].status = "cancelled" =>
                \A a \in auth_user' \ auth_user : a.email # invitations[t].email
      ]_vars

\* ----------------------------------------------- anonymous submissions
\* Requests filed without a session, with and without an e-mail address,
\* then read and written to by the users who are not privileged.
NextAnon ==
    \/ \E mail \in Mails : next_id <= MaxTracked /\ CreateRequest(ANON, mail, <<>>, TRUE)
    \/ \E u \in Callers : ListRequests(u)
    \/ \E u \in Callers, pk \in Pks : DetailRequest(u, pk)
    \/ \E u \in Callers, pk \in Pks, note \in Notes : add_worklog(u, pk, note, TRUE)
    \/ \E u \in Callers, pk \in Pks, f \in Files : add_attachment(u, pk, f)

SpecAnon == Init /\ [][NextAnon]_vars

\* ------------------------------------------------------------------ C29
\* the user filed the request: it is linked to the account, or it carries
\* an address and that address is the account's
SubmittedBy(u, pk) ==
    \/ requests[pk].requester_user = u
    \/ requests[pk].requester_email # "" /\ requests[pk].requester_email = email(u)

\* C29: a request filed anonymously is not shown in the list or the detail
\* view to a user who is not privileged and did not file it, and that user's
\* add_worklog and add_attachment calls on it are refused, also when the
\* request carries no address and the account has none.
C29_AnonymousRequestClosed ==
    [][\A u \in Users, pk \in DOMAIN requests :
          ( /\ ~Privileged(u)
            /\ requests[pk].requester_user = NULL
            /\ ~SubmittedBy(u, pk) ) =>
             /\ ListRequests(u) => pk \notin resp'.pks
             /\ DetailRequest(u, pk) => resp'.code = "404"
             /\ (\E note \in Notes, ok \in BOOLEAN : add_worklog(u, pk, note, ok))
                   => Refused
             /\ (\E f \in Files : add_attachment(u, pk, f)) => Refused
      ]_vars

\* ------------------------------------------------ week navigation
\* The calendar over several years: a date is the number of its day, with
\* day 1 = Monday 1 January of BaseYear, so that weekday(d) is its weekday.
BaseYear == 2024
CalYears == 2023..2029
NavYears == 2025..2027
NavWeeks == 1..53

\* calendar.isleap
IsLeap(y) == y % 4 = 0 /\ (y % 100 # 0 \/ y % 400 = 0)
DaysInYear(y) == IF IsLeap(y) THEN 366 ELSE 365

\* date(year, 1, 1)
RECURSIVE Jan1(_)
Jan1(y) ==
    IF y = BaseYear THEN 1
    ELSE IF y > BaseYear THEN Jan1(y - 1) + DaysInYear(y - 1)
    ELSE Jan1(y + 1) - DaysInYear(y)

\* date.year
DateYear(d) == CHOOSE y \in CalYears : Jan1(y) <= d /\ d < Jan1(y + 1)

\* jan4 - timedelta(days=jan4.weekday()) for the given year
Week1Monday(year) == (Jan1(year) + 3) - weekday(Jan1(year) + 3)

\* week1_monday + timedelta(weeks=week_num - 1)
WeekMonday(year, week_num) == Week1Monday(year) + 7 * (week_num - 1)

\* date.isocalendar(): the ISO year is the one whose first week has begun
\* and whose successor's has not; the week counts from that Monday
IsoYear(d) ==
    CHOOSE y \in CalYears : Week1Monday(y) <= d /\ d < Week1Monday(y + 1)
IsoWeek(d) == ((d - Week1Monday(IsoYear(d))) \div 7) + 1

\* prev_week_monday.year / next_week_monday.year
NavYear(d) == DateYear(d)

\* PlannerView with view=week: the displayed week and its navigation values
\* (the days of the week and their entries are PlannerWeek's)
WeekNavigation(u, year, week_num) ==
    /\ IF ~PlannerTest(u)
       THEN /\ resp' = Response("planner_week_nav", "403", {})
            /\ UNCHANGED ctx
       ELSE LET monday == WeekMonday(year, week_num)
                prev_week_monday == monday - 7
                next_week_monday == monday + 7
            IN  /\ resp' = Response("planner_week_nav", "200", {})
                /\ ctx' = [view |-> "week", year |-> year,
                           current_week |-> week_num,
                           week_monday |-> monday,
                           prev_week |-> IsoWeek(prev_week_monday),
                           prev_week_year |-> NavYear(prev_week_monday),
                           next_week |-> IsoWeek(next_week_monday),
                           next_week_year |-> NavYear(next_week_monday)]
    /\ UNCHANGED <<requests, next_id, work_logs, attachments, notifications,
                   outbox, clock, job, invVars, schedVars, assets, next_asset,
                   locations, next_location, core_job>>

NextWeek ==
    \E u \in {"sam", "una"}, year \in NavYears, week_num \in NavWeeks :
        WeekNavigation(u, year, week_num)

SpecWeek == Init /\ [][NextWeek]_vars

\* ------------------------------------------------------------------ C30
\* C30: for every displayed week the navigation values lead, when the view
\* is requested again with them, to the week whose Monday is 7 days after
\* the displayed Monday (next) and 7 days before it (prev), also where the
\* year changes.
C30_WeekNavigationConsistent ==
    (resp.op = "planner_week_nav" /\ resp.code = "200") =>
        /\ WeekMonday(ctx.next_week_year, ctx.next_week) = ctx.week_monday + 7
        /\ WeekMonday(ctx.prev_week_year, ctx.prev_week) = ctx.week_monday - 7

====
